---- MODULE Spec2Model ----
(***************************************************************************)
(* Veri-easy: the checker orchestrator (src/src/check.rs).                 *)
(*                                                                         *)
(* Checker::run_all drives a list of components over four worklists of     *)
(* CommonFunctions.  Every lookup the orchestrator makes is by             *)
(* metadata.name, so a CommonFunction is represented by its name (a Path,  *)
(* numbered 1..NumNames).  A component is represented by its is_formal()   *)
(* flag; what it returns (CheckResult) is any status with any ok and fail  *)
(* lists, because Component is an open trait.                              *)
(***************************************************************************)
EXTENDS Integers, Sequences, FiniteSets, TLC

\* ---------------------------------------------------------------- bounds
NumNames == 2
MaxFuncs == 2
MaxComponents == 3
MaxVerdicts == 2

Names == 1..NumNames

BSeq(S, k) == UNION {[1..m -> S] : m \in 0..k}

VARIABLES
    components,            \* Checker.components: is_formal() of each, in declared order
    strict,                \* Checker.strict
    under_checking_funcs,  \* Checker.under_checking_funcs
    verified_funcs,        \* Checker.verified_funcs
    tested_funcs,          \* Checker.tested_funcs
    failed_funcs,          \* Checker.failed_funcs
    pc,                    \* position in run_all: "loop", "merge", "break", "done"
    idx,                   \* position of the `for component in &self.components` iterator
    res,                   \* the CheckResult the last invoked component returned
    given,                 \* the worklists that component was given (`component.run(&self)`)
    invoked,               \* log of the components whose run() was called, in call order
    preprocessed,          \* the under_checking_funcs that Checker::new produced
    passed_formal,         \* history: the names a formal component has returned in res.ok
    failed_testing,        \* history: the names a testing component has returned in res.fail
    fail_formal_pass_test, \* names of the final inconsistency warning
    unchecked_and_untested,\* names of the final "remain unverified" error
    child,                 \* run_command: the subprocess, "none", "running" or "exited"
    written_out,           \* how many of its stdout lines the subprocess has written
    written_err,           \* how many of its stderr lines the subprocess has written
    stdout_pipe,           \* the lines in the stdout pipe, written and not yet read
    stderr_pipe,           \* the lines in the stderr pipe
    save_out,              \* the thread `save_out`: "none", "reading", "finished", "panicked"
    log_err,               \* the thread `log_err`
    file,                  \* the lines of the output file
    logged,                \* the lines given to the logger by the two threads
    run_pc,                \* position of the calling thread in run_command
    call,                  \* a single operation under study: its name and its inputs
    ret                    \* what that operation returned, once it has run

checkerVars == <<components, strict, under_checking_funcs, verified_funcs, tested_funcs,
                 failed_funcs, pc, idx, res, given, invoked, preprocessed,
                 passed_formal, failed_testing,
                 fail_formal_pass_test, unchecked_and_untested>>

commandVars == <<child, written_out, written_err, stdout_pipe, stderr_pipe,
                 save_out, log_err, file, logged, run_pc>>

vars == <<checkerVars, commandVars, call, ret>>

\* no run_command is in progress
CommandIdle ==
    /\ child = "none"
    /\ written_out = 0
    /\ written_err = 0
    /\ stdout_pipe = <<>>
    /\ stderr_pipe = <<>>
    /\ save_out = "none"
    /\ log_err = "none"
    /\ file = <<>>
    /\ logged = <<>>
    /\ run_pc = "idle"

\* no operation is under study (the orchestrator specification)
NoCall == [fn |-> "none"]

NoRet == [fn |-> "none"]

worklists == <<under_checking_funcs, verified_funcs, tested_funcs, failed_funcs>>

\* ------------------------------------------------------- Vec<_> helpers
Range(s) == {s[i] : i \in DOMAIN s}

\* iter().any(|f| f.metadata.name == name)
Contains(s, name) == \E i \in DOMAIN s : s[i] = name

\* iter().find(|f| f.metadata.name == name): the first element with that name
Find(s, name) ==
    s[CHOOSE i \in DOMAIN s : s[i] = name /\ \A j \in 1..(i - 1) : s[j] # name]

RetainDropsAll(s, name) == <<>>

RetainKeepsOnlyName(s, name) == SelectSeq(s, LAMBDA f : f = name)

\* retain(|f| f.metadata.name != name)
Retain(s, name) == SelectSeq(s, LAMBDA f : f # name)

\* number of entries of s named name
Count(s, name) == Cardinality({i \in DOMAIN s : s[i] = name})

\* iter().filter(|f| keep(f)).map(|f| &f.metadata.name).collect()
FilterIn(s, t) == SelectSeq(s, LAMBDA f : Contains(t, f))

FilterNotIn(s, t) == SelectSeq(s, LAMBDA f : ~Contains(t, f))

\* ------------------------------------------------------ the CheckResult
NoResult == [status |-> "none", ok |-> <<>>, fail |-> <<>>]

CheckResults ==
    [status : {"Ok", "Err"}, ok : BSeq(Names, MaxVerdicts), fail : BSeq(Names, MaxVerdicts)]

\* the four worklists as one value
Lists(u, v, t, f) == [under_checking |-> u, verified |-> v, tested |-> t, failed |-> f]

Current == Lists(under_checking_funcs, verified_funcs, tested_funcs, failed_funcs)

\* ------------------------------------------- merging one ok verdict (182-207)
OkStepFormalKeeps(formal, name, st) ==
    IF Contains(st.under_checking, name)
    THEN IF formal
         THEN [st EXCEPT !.verified = Append(@, Find(st.under_checking, name))]
         ELSE IF ~Contains(st.tested, name)
              THEN [st EXCEPT !.tested = Append(@, Find(st.under_checking, name))]
              ELSE st
    ELSE st

OkStepNoDedup(formal, name, st) ==
    IF Contains(st.under_checking, name)
    THEN IF formal
         THEN [st EXCEPT !.verified = Append(@, Find(st.under_checking, name)),
                         !.under_checking = Retain(@, name)]
         ELSE [st EXCEPT !.tested = Append(@, Find(st.under_checking, name))]
    ELSE st

OkStep(formal, name, st) ==
    IF Contains(st.under_checking, name)
    THEN IF formal
         THEN [st EXCEPT !.verified = Append(@, Find(st.under_checking, name)),
                         !.under_checking = Retain(@, name)]
         ELSE IF ~Contains(st.tested, name)
              THEN [st EXCEPT !.tested = Append(@, Find(st.under_checking, name))]
              ELSE st
    ELSE st

RECURSIVE MergeOk(_, _, _)
\* for name in &res.ok { ... }
MergeOk(formal, ok, st) ==
    IF ok = <<>> THEN st
    ELSE MergeOk(formal, Tail(ok), OkStep(formal, Head(ok), st))

\* ----------------------------------------- merging one fail verdict (209-228)
FailStepIgnored(formal, name, st) == st

FailStepKeeps(formal, name, st) ==
    IF Contains(st.under_checking, name)
    THEN IF ~formal
         THEN [st EXCEPT !.failed = Append(@, Find(st.under_checking, name))]
         ELSE st
    ELSE st

FailStepAlsoFormal(formal, name, st) ==
    IF Contains(st.under_checking, name)
    THEN [st EXCEPT !.failed = Append(@, Find(st.under_checking, name)),
                    !.under_checking = Retain(@, name)]
    ELSE st

FailStep(formal, name, st) ==
    IF Contains(st.under_checking, name)
    THEN IF ~formal
         THEN [st EXCEPT !.failed = Append(@, Find(st.under_checking, name)),
                         !.under_checking = Retain(@, name)]
         ELSE st
    ELSE st

RECURSIVE MergeFail(_, _, _)
\* for name in &res.fail { ... }
MergeFail(formal, fail, st) ==
    IF fail = <<>> THEN st
    ELSE MergeFail(formal, Tail(fail), FailStep(formal, Head(fail), st))

\* --------------------------------------------- result handling (165-238)
MergedIgnoringStatus(formal, r, st) ==
    MergeFail(formal, r.fail, MergeOk(formal, r.ok, st))

\* the worklists after the body of one loop iteration has handled r
Merged(formal, r, st) ==
    IF r.status = "Err" THEN st
    ELSE MergeFail(formal, r.fail, MergeOk(formal, r.ok, st))

StrictStopAnyComponent(formal, r, s) ==
    r.status # "Err" /\ r.fail # <<>> /\ s

\* whether the iteration ends in the strict-mode `break`
StrictStop(formal, r, s) ==
    r.status # "Err" /\ ~formal /\ r.fail # <<>> /\ s

\* the names a formal component passed with this result: `for name in
\* &res.ok` (183) with component.is_formal(), reached when status is Ok
PassedFormal(formal, r) == IF r.status = "Ok" /\ formal THEN Range(r.ok) ELSE {}

\* the names a testing component failed with this result: `for name in
\* &res.fail` (209) with !component.is_formal()
FailedTesting(formal, r) == IF r.status = "Ok" /\ ~formal THEN Range(r.fail) ELSE {}

\* ------------------------------------------------------------------ Init
\* Checker::new: preprocess() fills under_checking_funcs, the other three
\* worklists are Vec::new().
Init ==
    /\ components \in BSeq(BOOLEAN, MaxComponents)
    /\ strict \in BOOLEAN
    /\ under_checking_funcs \in BSeq(Names, MaxFuncs)
    /\ verified_funcs = <<>>
    /\ tested_funcs = <<>>
    /\ failed_funcs = <<>>
    /\ pc = "loop"
    /\ idx = 1
    /\ res = NoResult
    /\ given = Lists(under_checking_funcs, <<>>, <<>>, <<>>)
    /\ invoked = <<>>
    /\ preprocessed = under_checking_funcs
    /\ passed_formal = {}
    /\ failed_testing = {}
    /\ fail_formal_pass_test = <<>>
    /\ unchecked_and_untested = <<>>
    /\ CommandIdle
    /\ call = NoCall
    /\ ret = NoRet

\* --------------------------------------------------------------- actions
InvokeGuardNoEmptyCheck ==
    /\ pc = "loop"
    /\ idx <= Len(components)

\* the loop takes the next component and under_checking_funcs is not empty
InvokeGuard ==
    /\ pc = "loop"
    /\ idx <= Len(components)
    /\ under_checking_funcs # <<>>

\* loop head (152-160) and `let res = component.run(&self)` (164)
Invoke ==
    /\ InvokeGuard
    /\ \E r \in CheckResults : res' = r
    /\ given' = Current
    /\ invoked' = Append(invoked, idx)
    /\ pc' = "merge"
    /\ UNCHANGED <<components, strict, worklists, idx, preprocessed,
                   passed_formal, failed_testing,
                   fail_formal_pass_test, unchecked_and_untested, commandVars, call, ret>>

\* the rest of the iteration (165-248): error `continue`, the two merge
\* loops, the strict-mode `break`
Merge ==
    /\ pc = "merge"
    /\ LET st == Merged(components[idx], res, Current) IN
        /\ under_checking_funcs' = st.under_checking
        /\ verified_funcs' = st.verified
        /\ tested_funcs' = st.tested
        /\ failed_funcs' = st.failed
    /\ pc' = IF StrictStop(components[idx], res, strict) THEN "break" ELSE "loop"
    /\ idx' = idx + 1
    /\ passed_formal' = passed_formal \cup PassedFormal(components[idx], res)
    /\ failed_testing' = failed_testing \cup FailedTesting(components[idx], res)
    /\ UNCHANGED <<components, strict, res, given, invoked, preprocessed,
                   fail_formal_pass_test, unchecked_and_untested, commandVars, call, ret>>

\* the loop is left: by the strict-mode `break`, by the emptiness `break`,
\* or because the iterator is exhausted
FinishGuard ==
    \/ pc = "break"
    \/ pc = "loop" /\ (idx > Len(components) \/ under_checking_funcs = <<>>)

\* leaving the loop (iterator exhausted, the emptiness `break`, or the
\* strict-mode `break`) and the final reports (250-297)
Finish ==
    /\ FinishGuard
    /\ fail_formal_pass_test' = FilterIn(failed_funcs, tested_funcs)
    /\ unchecked_and_untested' = FilterNotIn(under_checking_funcs, tested_funcs)
    /\ pc' = "done"
    /\ UNCHANGED <<components, strict, worklists, idx, res, given, invoked, preprocessed,
                   passed_formal, failed_testing, commandVars, call, ret>>

Next == Invoke \/ Merge \/ Finish

Spec == Init /\ [][Next]_vars

\* run_all is sequential code: it advances whenever a component returns
FairSpec == Spec /\ WF_vars(Next)

TypeOK ==
    /\ components \in BSeq(BOOLEAN, MaxComponents)
    /\ strict \in BOOLEAN
    /\ pc \in {"loop", "merge", "break", "done"}
    /\ idx \in 1..(MaxComponents + 1)
    /\ res \in CheckResults \cup {NoResult}
    /\ Range(under_checking_funcs) \subseteq Names
    /\ passed_formal \subseteq Names
    /\ failed_testing \subseteq Names

\* ---------------------------------------------------------------- claims
\* the last invoked component, and whether its result has been handled
Last == invoked[Len(invoked)]

LastFormal == components[Last]

Ran == invoked # <<>> /\ pc # "merge"

RanOk == Ran /\ res.status = "Ok"

SameCounts(name) ==
    /\ Count(under_checking_funcs, name) = Count(given.under_checking, name)
    /\ Count(verified_funcs, name) = Count(given.verified, name)
    /\ Count(tested_funcs, name) = Count(given.tested, name)
    /\ Count(failed_funcs, name) = Count(given.failed, name)

\* C1: after a formal component returned Ok, every name of its ok list that
\* was in under_checking when it returned is in verified and not in
\* under_checking; a name of ok that was not in under_checking has the same
\* entries in all four worklists as before, and when no ok name was in
\* under_checking the four worklists are what they were.
C1_FormalOkMoves ==
    (RanOk /\ LastFormal) =>
        /\ \A n \in Range(res.ok) :
              IF Contains(given.under_checking, n)
              THEN Contains(verified_funcs, n) /\ ~Contains(under_checking_funcs, n)
              ELSE SameCounts(n)
        /\ (Range(res.ok) \cap Range(given.under_checking) = {}) => Current = given

C1_Witness ==
    /\ RanOk /\ LastFormal
    /\ \E n, m \in Range(res.ok) :
          /\ Contains(given.under_checking, n) /\ Contains(verified_funcs, n)
          /\ ~Contains(given.under_checking, m) /\ ~Contains(verified_funcs, m)

\* C2: after a testing component returned Ok, every name of its fail list
\* that was in under_checking when it returned is in failed and not in
\* under_checking; and no component is ever given an under_checking list
\* that holds a name of the failed list.
C2_TestingFailMoves ==
    /\ (RanOk /\ ~LastFormal) =>
          \A n \in Range(res.fail) :
              Contains(given.under_checking, n) =>
                  Contains(failed_funcs, n) /\ ~Contains(under_checking_funcs, n)
    /\ \A n \in Range(given.failed) : ~Contains(given.under_checking, n)

C2_Witness ==
    /\ RanOk /\ ~LastFormal
    /\ pc = "loop" /\ idx <= Len(components) /\ under_checking_funcs # <<>>
    /\ \E n \in Range(res.fail) :
          Contains(given.under_checking, n) /\ Contains(failed_funcs, n)

\* C3: a testing component that returned Ok never removes from
\* under_checking a name that is not in its fail list; with an empty fail
\* list it leaves under_checking, verified and failed as they were; and
\* every ok name that was in under_checking is in tested exactly once.
C3_TestingOkKeeps ==
    (RanOk /\ ~LastFormal) =>
        /\ \A n \in Names \ Range(res.fail) :
              Count(under_checking_funcs, n) = Count(given.under_checking, n)
        /\ res.fail = <<>> =>
              /\ under_checking_funcs = given.under_checking
              /\ verified_funcs = given.verified
              /\ failed_funcs = given.failed
        /\ \A n \in Range(res.ok) :
              Contains(given.under_checking, n) => Count(tested_funcs, n) = 1

C3_Witness ==
    /\ RanOk /\ ~LastFormal /\ res.fail = <<>>
    /\ \E n \in Range(res.ok) :
          /\ Contains(given.under_checking, n)
          /\ Contains(given.tested, n)
          /\ Count(res.ok, n) = 2
          /\ Contains(under_checking_funcs, n)

\* C4: a formal component that returned Ok with an empty ok list and a
\* non-empty fail list leaves the four worklists exactly as they were.
C4_FormalFailFrame ==
    (RanOk /\ LastFormal /\ res.ok = <<>> /\ res.fail # <<>>) => Current = given

C4_Witness ==
    /\ RanOk /\ LastFormal /\ res.ok = <<>>
    /\ \E n \in Range(res.fail) : Contains(under_checking_funcs, n)

\* C5: in every state of run_all, no name is in both verified and failed.
C5_VerifiedFailedDisjoint ==
    \A n \in Names : ~(Contains(verified_funcs, n) /\ Contains(failed_funcs, n))

C5_Witness ==
    /\ pc = "done"
    /\ verified_funcs # <<>> /\ failed_funcs # <<>>
    /\ \E i \in DOMAIN components : components[i]
    /\ \E i \in DOMAIN components : ~components[i]

Disjoint(s, t) == Range(s) \cap Range(t) = {}

\* C6 as stated: after each component step the only worklists that share a
\* name are tested and under_checking.
C6_AsStated ==
    Ran =>
        /\ Disjoint(tested_funcs, verified_funcs)
        /\ Disjoint(tested_funcs, failed_funcs)
        /\ Disjoint(under_checking_funcs, verified_funcs)
        /\ Disjoint(under_checking_funcs, failed_funcs)
        /\ Disjoint(verified_funcs, failed_funcs)

\* C6 (amended): after each component step under_checking, verified and
\* failed are pairwise disjoint, and every name of tested is in one of
\* them: tested may share a name with under_checking, with verified or with
\* failed.
C6_Amended ==
    Ran =>
        /\ Disjoint(under_checking_funcs, verified_funcs)
        /\ Disjoint(under_checking_funcs, failed_funcs)
        /\ Disjoint(verified_funcs, failed_funcs)
        /\ Range(tested_funcs) \subseteq
              Range(under_checking_funcs) \cup Range(verified_funcs) \cup Range(failed_funcs)

C6_Witness ==
    /\ Ran
    /\ ~Disjoint(tested_funcs, failed_funcs)
    /\ ~Disjoint(tested_funcs, verified_funcs)

InBuckets(n) ==
    Cardinality({l \in {"u", "v", "f"} :
        \/ l = "u" /\ Contains(under_checking_funcs, n)
        \/ l = "v" /\ Contains(verified_funcs, n)
        \/ l = "f" /\ Contains(failed_funcs, n)})

\* C7: at every point of run_all a name that preprocessing placed in
\* under_checking is in exactly one of under_checking, verified, failed, and
\* any other name is in none of them; a name in verified stays in verified
\* and a name in failed stays in failed.
C7_OneBucket ==
    /\ [](\A n \in Names : InBuckets(n) = IF Contains(preprocessed, n) THEN 1 ELSE 0)
    /\ [][\A n \in Names :
            /\ Contains(verified_funcs, n) => Contains(verified_funcs', n)
            /\ Contains(failed_funcs, n) => Contains(failed_funcs', n)]_vars

C7_Witness ==
    /\ RanOk /\ ~LastFormal
    /\ \E n, m \in Names :
          /\ Contains(given.verified, n) /\ Contains(res.fail, n)
          /\ Contains(verified_funcs, n)
          /\ Contains(given.under_checking, m) /\ Contains(res.fail, m)
          /\ Contains(failed_funcs, m)

\* a natural number that every step of run_all decreases
Measure ==
    IF pc = "done" THEN 0
    ELSE 3 * (Len(components) + 1 - idx)
            + (CASE pc = "loop" -> 3 [] pc = "merge" -> 2 [] pc = "break" -> 1)

\* C8: run_all calls the components in declared order, each at most once,
\* and never with an empty under_checking; at the loop head with
\* under_checking empty or every component run, the next step ends the run;
\* and the run terminates: it is never stuck before the end and every step
\* decreases a natural number.
C8_OrderAndTermination ==
    /\ [](\A i \in DOMAIN invoked : invoked[i] = i /\ i \in DOMAIN components)
    /\ [][invoked' # invoked =>
            /\ under_checking_funcs # <<>>
            /\ invoked' = Append(invoked, idx)
            /\ idx = Len(invoked) + 1]_vars
    /\ [][(pc = "loop" /\ (under_checking_funcs = <<>> \/ idx > Len(components)))
            => pc' = "done"]_vars
    /\ [](Measure \in Nat)
    /\ [][Measure' < Measure]_vars
    /\ [](pc # "done" => (InvokeGuard \/ pc = "merge" \/ FinishGuard))

C8_Witness ==
    /\ pc = "done"
    /\ Len(invoked) = 2
    /\ Len(components) = 3
    /\ under_checking_funcs = <<>>
    /\ ~StrictStop(LastFormal, res, strict)

\* C9: after a component returned an error status the four worklists are
\* what they were, whatever its ok and fail lists hold, and the strict-mode
\* stop is not taken: if a component is left, the loop is at its head with
\* that component next and invokes it.
C9_ErrorFrame ==
    (Ran /\ res.status = "Err") =>
        /\ Current = given
        /\ idx = Last + 1
        /\ pc \in {"loop", "done"}
        /\ idx <= Len(components) => (pc = "loop" /\ InvokeGuard /\ ~FinishGuard)

C9_Witness ==
    /\ Ran /\ res.status = "Err"
    /\ strict /\ ~LastFormal
    /\ \E n \in Range(res.ok) : Contains(under_checking_funcs, n)
    /\ \E n \in Range(res.fail) : Contains(under_checking_funcs, n)
    /\ idx <= Len(components) /\ pc = "loop"

StrictCase == strict /\ ~LastFormal /\ res.fail # <<>>

\* C10: with strict mode on, after a testing component returned Ok with a
\* non-empty fail list its verdicts are in the worklists and the run is
\* stopped: no component is invoked from then on.  In every other case of
\* an Ok result the loop is not stopped: if a component is left and
\* under_checking is not empty, the loop is at its head to invoke it.
C10_StrictStop ==
    /\ []((RanOk /\ StrictCase) =>
            /\ pc \in {"break", "done"}
            /\ Current = MergeFail(FALSE, res.fail, MergeOk(FALSE, res.ok, given))
            /\ \A n \in Range(res.fail) :
                  Contains(given.under_checking, n) => Contains(failed_funcs, n))
    /\ [][(pc \in {"break", "done"}) => (pc' \in {"break", "done"} /\ invoked' = invoked)]_vars
    /\ []((RanOk /\ ~StrictCase /\ idx <= Len(components) /\ under_checking_funcs # <<>>)
            => (pc = "loop" /\ InvokeGuard))

C10_Witness ==
    /\ RanOk /\ StrictCase
    /\ pc = "done"
    /\ idx <= Len(components)
    /\ under_checking_funcs # <<>>
    /\ failed_funcs # <<>>

\* the names the inconsistency warning of run_all lists (260-277)
WarningNames == Range(fail_formal_pass_test)

\* C21: at the end of run_all the inconsistency warning names a function
\* only if it failed a testing component and passed a formal component.
C21_WarningNamesFormalPass ==
    pc = "done" => \A name \in WarningNames :
                      name \in failed_testing /\ name \in passed_formal


(***************************************************************************)
(* Single operations.  The specifications below study one operation at a   *)
(* time: Init draws its inputs into `call`, one action runs it and stores  *)
(* what it returned in `ret`.  The orchestrator's variables stay idle.     *)
(***************************************************************************)
CheckerIdle ==
    /\ components = <<>>
    /\ strict = FALSE
    /\ under_checking_funcs = <<>>
    /\ verified_funcs = <<>>
    /\ tested_funcs = <<>>
    /\ failed_funcs = <<>>
    /\ pc = "idle"
    /\ idx = 1
    /\ res = NoResult
    /\ given = Lists(<<>>, <<>>, <<>>, <<>>)
    /\ invoked = <<>>
    /\ preprocessed = <<>>
    /\ passed_formal = {}
    /\ failed_testing = {}
    /\ fail_formal_pass_test = <<>>
    /\ unchecked_and_untested = <<>>
    /\ CommandIdle

Pending(fn) == call.fn = fn /\ ret = NoRet

Returned(fn) == call.fn = fn /\ ret # NoRet

\* ------------------------------------------ Identical (components/identical.rs)
NumBodies == 2

Bodies == 1..NumBodies

\* CommonFunction: metadata.name and the two body texts
CommonFunctions == [name : Names, body1 : Bodies, body2 : Bodies]

IdenticalStepAlways(r, func) == [r EXCEPT !.ok = Append(@, func.name)]

\* the body of `for func in &checker.under_checking_funcs` (28-30)
IdenticalStep(r, func) ==
    IF func.body1 = func.body2 THEN [r EXCEPT !.ok = Append(@, func.name)] ELSE r

RECURSIVE IdenticalLoop(_, _)
IdenticalLoop(r, funcs) ==
    IF funcs = <<>> THEN r
    ELSE IdenticalLoop(IdenticalStep(r, Head(funcs)), Tail(funcs))

\* Identical::run
IdenticalRun(funcs) ==
    IdenticalLoop([status |-> "Ok", ok |-> <<>>, fail |-> <<>>], funcs)

InitIdentical ==
    /\ CheckerIdle
    /\ call \in [fn : {"Identical::run"},
                 under_checking_funcs : BSeq(CommonFunctions, MaxFuncs)]
    /\ ret = NoRet

RunIdentical ==
    /\ Pending("Identical::run")
    /\ ret' = IdenticalRun(call.under_checking_funcs)
    /\ UNCHANGED <<checkerVars, commandVars, call>>

NextIdentical == RunIdentical

SpecIdentical == InitIdentical /\ [][NextIdentical]_vars

SameBodies(func) == func.body1 = func.body2

\* C11: Identical::run returns status Ok and an empty fail list; its ok list
\* is the names of the under_checking functions whose body1 equals body2, in
\* order, one entry for each; so the name of a function is in ok if and
\* only if its two bodies are equal (for a function that shares its name
\* with no function of the opposite kind).
C11_IdenticalOk ==
    Returned("Identical::run") =>
        LET funcs == call.under_checking_funcs
            same == SelectSeq(funcs, SameBodies)
        IN  /\ ret.status = "Ok"
            /\ ret.fail = <<>>
            /\ ret.ok = [k \in 1..Len(same) |-> same[k].name]
            /\ \A i \in DOMAIN funcs :
                  (\A j \in DOMAIN funcs :
                      funcs[j].name = funcs[i].name => SameBodies(funcs[j]) = SameBodies(funcs[i]))
                  => (Contains(ret.ok, funcs[i].name) <=> SameBodies(funcs[i]))

C11_Witness ==
    /\ Returned("Identical::run")
    /\ \E i, j \in DOMAIN call.under_checking_funcs :
          /\ SameBodies(call.under_checking_funcs[i])
          /\ ~SameBodies(call.under_checking_funcs[j])
          /\ Contains(ret.ok, call.under_checking_funcs[i].name)
          /\ ~Contains(ret.ok, call.under_checking_funcs[j].name)

\* ------------------------------------------ Checker::preprocess (check.rs 326-433)
MaxSrcFuncs == 2
MaxInstTypes == 1
MaxPreconds == 1

\* Type (defs/types.rs 4-10) and Option<Type>
NoType == [kind |-> "None"]

Generic(path, generics) == [kind |-> "Generic", path |-> path, generics |-> generics]

Precise(path) == [kind |-> "Precise", path |-> path]

\* Signature, up to its equality (defs/function.rs 9-29): identifier, the
\* inputs (a receiver or the type of a typed argument) and the return type
Sig(ident, inputs, output) == [ident |-> ident, inputs |-> inputs, output |-> output]

FooT == Generic(<<"Foo">>, <<Precise(<<"T">>)>>)

\* FunctionMetadata of the functions a source may hold: two free functions
\* of equal signature in different modules, and a method, a constructor
\* and a getter of the generic impl type Foo<T>
Metadatas ==
    { [name |-> <<"a", "f">>, signature |-> Sig("f", <<"u32">>, "u32"), impl_type |-> NoType],
      [name |-> <<"b", "f">>, signature |-> Sig("f", <<"u32">>, "u32"), impl_type |-> NoType],
      [name |-> <<"Foo<T>", "m">>, signature |-> Sig("m", <<"self">>, "u32"), impl_type |-> FooT],
      [name |-> <<"Foo<T>", "verieasy_new">>, signature |-> Sig("verieasy_new", <<>>, "Self"),
       impl_type |-> FooT],
      [name |-> <<"Foo<T>", "verieasy_get">>, signature |-> Sig("verieasy_get", <<"self">>, "u32"),
       impl_type |-> FooT] }

\* Function (defs/function.rs 81-86)
Functions == [metadata : Metadatas, body : Bodies]

\* InstantiatedType: `type FB = Foo<Bar>`
InstantiatedTypes ==
    { [alias |-> <<"FB">>, concrete |-> Generic(<<"Foo">>, <<Precise(<<"Bar">>)>>)] }

\* Precondition (defs/function.rs 135-140)
Preconditions ==
    { [name |-> <<"Foo<T>", "m">>, impl_type |-> FooT],
      [name |-> <<"a", "f">>, impl_type |-> NoType] }

\* Type::eq_ignore_generics (defs/types.rs 54-60)
eq_ignore_generics(t, other) ==
    CASE t.kind = "Generic" /\ other.kind = "Generic" -> t.path = other.path
      [] t.kind = "Precise" /\ other.kind = "Precise" -> t = other
      [] OTHER -> FALSE

\* the last segment of a name: FunctionMetadata::ident, Precondition::ident
LastSeg(name) == name[Len(name)]

\* FunctionMetadata::is_constructor (58-60)
is_constructor(md) == md.impl_type # NoType /\ md.signature.ident = "verieasy_new"

\* FunctionMetadata::is_getter (63-70)
is_getter(md) ==
    /\ md.impl_type # NoType
    /\ md.signature.inputs # <<>> /\ Head(md.signature.inputs) = "self"
    /\ md.signature.ident = "verieasy_get"

RECURSIVE Concat(_)
\* the concatenation of a sequence of sequences
Concat(ss) == IF ss = <<>> THEN <<>> ELSE Head(ss) \o Concat(Tail(ss))

\* iter().find(|func2| func.metadata.signature == func2.metadata.signature):
\* the index of the first function of funcs with that signature, or 0
FindBySignature(funcs, signature) ==
    IF \E i \in DOMAIN funcs : funcs[i].metadata.signature = signature
    THEN CHOOSE i \in DOMAIN funcs :
            /\ funcs[i].metadata.signature = signature
            /\ \A j \in 1..(i - 1) : funcs[j].metadata.signature # signature
    ELSE 0

\* "Find common functions by signature" (330-343)
CommonFuncs(funcs1, funcs2) ==
    Concat([i \in DOMAIN funcs1 |->
        LET k == FindBySignature(funcs2, funcs1[i].metadata.signature) IN
        IF k = 0 THEN <<>>
        ELSE << [metadata |-> funcs1[i].metadata,
                 body1 |-> funcs1[i].body, body2 |-> funcs2[k].body] >>])

\* "Remove common functions from unique lists" (346-355)
RetainUnique(funcs, common) ==
    SelectSeq(funcs, LAMBDA func :
        ~\E c \in DOMAIN common : func.metadata.name = common[c].metadata.name)

\* "Get the common instantiated generic types" (358-368)
CommonInstTypes(inst1, inst2) ==
    SelectSeq(inst1, LAMBDA t : \E k \in DOMAIN inst2 : inst2[k] = t)

\* one common function renamed to the alias of inst_type (380-385)
RenamedFunc(func, inst_type) ==
    [func EXCEPT !.metadata.impl_type = Precise(inst_type.alias),
                 !.metadata.name = Append(inst_type.alias, func.metadata.signature.ident)]

\* the loop over the common functions (373-393): inst_types is
\* self.src1.inst_types
UpdatedCommonFuncs(common, inst_types) ==
    Concat([i \in DOMAIN common |->
        LET func == common[i]
            hits == SelectSeq(inst_types, LAMBDA t :
                        func.metadata.impl_type # NoType
                        /\ eq_ignore_generics(t.concrete, func.metadata.impl_type))
        IN  IF hits = <<>> THEN <<func>>
            ELSE [k \in DOMAIN hits |-> RenamedFunc(func, hits[k])]])

\* one precondition renamed to the alias of inst_type (403-407)
RenamedPrecond(pre, inst_type) ==
    [pre EXCEPT !.impl_type = Precise(inst_type.alias),
                !.name = Append(inst_type.alias, LastSeg(pre.name))]

\* the loop over the preconditions (396-416)
UpdatedPreconditions(preconditions, inst_types) ==
    Concat([i \in DOMAIN preconditions |->
        LET pre == preconditions[i]
            hits == SelectSeq(inst_types, LAMBDA t :
                        pre.impl_type # NoType /\ eq_ignore_generics(t.concrete, pre.impl_type))
        IN  IF hits = <<>> THEN <<pre>>
            ELSE [k \in DOMAIN hits |-> RenamedPrecond(pre, hits[k])]])

\* Checker::preprocess
Preprocess(c) ==
    LET common == CommonFuncs(c.src1_unique_funcs, c.src2_unique_funcs)
        updated == UpdatedCommonFuncs(common, c.src1_inst_types)
    IN  [fn |-> "Checker::preprocess",
         common_funcs |-> common,
         common_inst_types |-> CommonInstTypes(c.src1_inst_types, c.src2_inst_types),
         src1_unique_funcs |-> RetainUnique(c.src1_unique_funcs, common),
         src2_unique_funcs |-> RetainUnique(c.src2_unique_funcs, common),
         updated_common_funcs |-> updated,
         preconditions |-> UpdatedPreconditions(c.preconditions, c.src1_inst_types),
         constructors |-> SelectSeq(updated, LAMBDA f : is_constructor(f.metadata)),
         getters |-> SelectSeq(updated, LAMBDA f : is_getter(f.metadata)),
         under_checking_funcs |->
             SelectSeq(updated, LAMBDA f :
                 ~is_constructor(f.metadata) /\ ~is_getter(f.metadata))]

\* Checker::new (126-148) on two opened sources
InitPreprocess ==
    /\ CheckerIdle
    /\ call \in [fn : {"Checker::preprocess"},
                 src1_unique_funcs : BSeq(Functions, MaxSrcFuncs),
                 src2_unique_funcs : BSeq(Functions, MaxSrcFuncs),
                 src1_inst_types : BSeq(InstantiatedTypes, MaxInstTypes),
                 src2_inst_types : BSeq(InstantiatedTypes, MaxInstTypes),
                 preconditions : BSeq(Preconditions, MaxPreconds)]
    /\ ret = NoRet

RunPreprocess ==
    /\ Pending("Checker::preprocess")
    /\ ret' = Preprocess(call)
    /\ UNCHANGED <<checkerVars, commandVars, call>>

NextPreprocess == RunPreprocess

SpecPreprocess == InitPreprocess /\ [][NextPreprocess]_vars

\* C12: every CommonFunction that preprocess pairs takes body1 from a
\* function of source 1 and body2 from a function of source 2 that have
\* equal signatures and the same fully-qualified name.
C12_PairedByName ==
    Returned("Checker::preprocess") =>
        \A c \in DOMAIN ret.common_funcs :
            \E i \in DOMAIN call.src1_unique_funcs, k \in DOMAIN call.src2_unique_funcs :
                LET f1 == call.src1_unique_funcs[i]
                    f2 == call.src2_unique_funcs[k]
                IN  /\ f1.metadata = ret.common_funcs[c].metadata
                    /\ f1.body = ret.common_funcs[c].body1
                    /\ f2.body = ret.common_funcs[c].body2
                    /\ f1.metadata.signature = f2.metadata.signature
                    /\ f1.metadata.name = f2.metadata.name

InCommon(inst_type) ==
    /\ \E k \in DOMAIN call.src1_inst_types : call.src1_inst_types[k] = inst_type
    /\ \E k \in DOMAIN call.src2_inst_types : call.src2_inst_types[k] = inst_type

\* C13: a common function, and a precondition, whose impl_type matches the
\* concrete type of an instantiation by eq_ignore_generics is rewritten to
\* the alias exactly when the instantiation is in both sources' tables.
C13_RewriteOnCommonAlias ==
    Returned("Checker::preprocess") =>
        \A t \in Range(call.src1_inst_types) \cup Range(call.src2_inst_types) :
            /\ \A c \in DOMAIN ret.common_funcs :
                  LET func == ret.common_funcs[c] IN
                  (func.metadata.impl_type # NoType
                     /\ eq_ignore_generics(t.concrete, func.metadata.impl_type))
                  => (Contains(ret.updated_common_funcs, RenamedFunc(func, t)) <=> InCommon(t))
            /\ \A p \in DOMAIN call.preconditions :
                  LET pre == call.preconditions[p] IN
                  (pre.impl_type # NoType /\ eq_ignore_generics(t.concrete, pre.impl_type))
                  => (Contains(ret.preconditions, RenamedPrecond(pre, t)) <=> InCommon(t))

\* ------------- generated check drivers (components/pbt.rs 39-195, df.rs 34-243)
NumValues == 2

Values == 1..NumValues

\* what a call of the code under test does: it returns a value or panics
Panics == [kind |-> "panics"]

Returns(v) == [kind |-> "returns", value |-> v]

Outcomes == {Returns(v) : v \in Values} \cup {Panics}

\* std::panic::catch_unwind(..).map_err(|_| ())
CatchUnwind(o) == IF o = Panics THEN [tag |-> "Err"] ELSE [tag |-> "Ok", value |-> o.value]

RetvMismatchOfValues(r1, r2) == r1.tag = "Ok" /\ r2.tag = "Ok" /\ r1 # r2

\* retv_check: `if r1 != r2`
RetvMismatch(r1, r2) == r1 # r2

\* the driver went through without a report (`true`, or the test passes)
Pass == [fn |-> "check", report |-> FALSE, verdict |-> "pass"]

\* prop_assume! rejected the input
Reject == [fn |-> "check", report |-> FALSE, verdict |-> "reject"]

\* err_report, then `assert!(false)` or `return false`
Mismatch == [fn |-> "check", report |-> TRUE, verdict |-> "fail"]

\* a panic of the code under test left the driver
Crash == [fn |-> "check", report |-> FALSE, verdict |-> "crash"]

\* the part of a driver from the target calls on: r1, r2, retv_check and,
\* for a method with a getter, state_check
CallAndCompare(c, catch) ==
    IF ~catch /\ (c.o1 = Panics \/ c.o2 = Panics) THEN Crash
    ELSE IF RetvMismatch(CatchUnwind(c.o1), CatchUnwind(c.o2)) THEN Mismatch
    ELSE IF c.kind = "method" /\ c.getter /\ c.g1 # c.g2 THEN Mismatch
    ELSE Pass

\* PBTHarnessBackend::make_harness_for_function / make_harness_for_method:
\* what the generated proptest case does on one input
PBTDriver(c) ==
    IF c.kind = "function"
    THEN IF c.precond = "fails" THEN Reject ELSE CallAndCompare(c, TRUE)
    ELSE IF c.c1 = "panic" \/ c.c2 = "panic" THEN Pass
    ELSE IF c.precond = "fails" THEN Pass
    ELSE CallAndCompare(c, TRUE)

\* DFHarnessBackend::make_harness_for_function / make_harness_for_method:
\* what the generated check_<name>(input) does
DFDriver(c) ==
    IF ~c.decode_ok THEN Pass
    ELSE IF c.kind = "method" /\ (c.c1 = "panic" \/ c.c2 = "panic")
         THEN IF c.catch_panic THEN Pass ELSE Crash
    ELSE IF c.precond = "fails" THEN Pass
    ELSE CallAndCompare(c, c.catch_panic)

CheckDriver(c) == IF c.backend = "pbt" THEN PBTDriver(c) ELSE DFDriver(c)

InitDriver ==
    /\ CheckerIdle
    /\ call \in [fn : {"check"},
                 backend : {"pbt", "df"},
                 kind : {"function", "method"},
                 catch_panic : BOOLEAN,
                 decode_ok : BOOLEAN,
                 precond : {"none", "holds", "fails"},
                 c1 : {"ok", "panic"}, c2 : {"ok", "panic"},
                 o1 : Outcomes, o2 : Outcomes,
                 getter : BOOLEAN,
                 g1 : Values, g2 : Values]
    /\ ret = NoRet

RunDriver ==
    /\ Pending("check")
    /\ ret' = CheckDriver(call)
    /\ UNCHANGED <<checkerVars, commandVars, call>>

NextDriver == RunDriver

SpecDriver == InitDriver /\ [][NextDriver]_vars

\* a driver that catches panics reached the two target calls
ReachedCalls ==
    /\ Returned("check")
    /\ call.backend = "pbt" \/ call.catch_panic
    /\ call.backend = "df" => call.decode_ok
    /\ call.kind = "method" => (call.c1 = "ok" /\ call.c2 = "ok")
    /\ call.precond # "fails"

OneSidedPanic == (call.o1 = Panics) # (call.o2 = Panics)

NumTypes == 2
MaxHelpers == 2

\* the impl types; NoImpl is `impl_type: None`
ImplTypes == 1..NumTypes

NoImpl == 0

\* a CommonFunction of under_checking_funcs, as FunctionCollection reads it:
\* its name, its impl_type and whether its inputs hold a receiver
CheckedFuncs == [name : Names, impl_type : ImplTypes \cup {NoImpl}, receiver : BOOLEAN]

\* a constructor or getter of checker.constructors / checker.getters
Helpers == [name : Names, impl_type : ImplTypes]

EmptyMap == [t \in {} |-> 0]

\* BTreeMap::insert
MapInsert(map, key, value) ==
    [t \in DOMAIN map \cup {key} |-> IF t = key THEN value ELSE map[t]]

RECURSIVE InsertAll(_, _)
\* `for helper in helpers { map.insert(impl_type, helper) }` (70-79)
InsertAll(map, helpers) ==
    IF helpers = <<>> THEN map
    ELSE InsertAll(MapInsert(map, Head(helpers).impl_type, Head(helpers)), Tail(helpers))

\* `for func in functions` (49-69): has an impl_type and a receiver
IsMethod(func) == func.impl_type # NoImpl /\ func.receiver

\* FunctionCollection::new
NewCollection(functions, constructors, getters) ==
    [functions |-> SelectSeq(functions, LAMBDA f : ~IsMethod(f)),
     methods |-> SelectSeq(functions, IsMethod),
     constructors |-> InsertAll(EmptyMap, constructors),
     getters |-> InsertAll(EmptyMap, getters)]

\* methods.iter().any(|method| method.metadata.impl_type.as_ref() == Some(type_))
HasMethod(col, type) == \E i \in DOMAIN col.methods : col.methods[i].impl_type = type

\* FunctionCollection::remove_unused_constructors_and_getters (93-114):
\* unused_types ranges over the keys of constructors
remove_unused_constructors_and_getters(col) ==
    LET unused_types == {t \in DOMAIN col.constructors : ~HasMethod(col, t)} IN
    [col EXCEPT !.constructors = [t \in DOMAIN col.constructors \ unused_types |-> col.constructors[t]],
                !.getters = [t \in DOMAIN col.getters \ unused_types |-> col.getters[t]]]

RemoveMethodsOfFirstTypeOnly(col) ==
    LET missing == SelectSeq(col.methods, LAMBDA m : m.impl_type \notin DOMAIN col.constructors) IN
    IF missing = <<>> THEN col
    ELSE [col EXCEPT !.methods = SelectSeq(@, LAMBDA m : m.impl_type # missing[1].impl_type)]

\* FunctionCollection::remove_methods_without_constructors (119-138)
remove_methods_without_constructors(col) ==
    LET no_constructor_types ==
            {col.methods[i].impl_type : i \in
                {j \in DOMAIN col.methods : col.methods[j].impl_type \notin DOMAIN col.constructors}}
    IN  [col EXCEPT !.methods = SelectSeq(@, LAMBDA m : m.impl_type \notin no_constructor_types)]

\* HarnessGenerator::new (155-170): the collection it keeps
HarnessCollection(c) ==
    remove_methods_without_constructors(
        remove_unused_constructors_and_getters(
            NewCollection(c.under_checking_funcs, c.constructors, c.getters)))

InitHarness ==
    /\ CheckerIdle
    /\ call \in [fn : {"HarnessGenerator::new"},
                 under_checking_funcs : BSeq(CheckedFuncs, MaxFuncs),
                 constructors : BSeq(Helpers, MaxHelpers),
                 getters : BSeq(Helpers, MaxHelpers)]
    /\ ret = NoRet

RunHarness ==
    /\ Pending("HarnessGenerator::new")
    /\ ret' = [fn |-> "HarnessGenerator::new", collection |-> HarnessCollection(call)]
    /\ UNCHANGED <<checkerVars, commandVars, call>>

NextHarness == RunHarness

SpecHarness == InitHarness /\ [][NextHarness]_vars

\* C15: after HarnessGenerator::new every method of the collection has a
\* constructor for its impl_type in the constructors map, and the free
\* functions are all the functions of under_checking that are not methods.
C15_MethodsHaveConstructors ==
    Returned("HarnessGenerator::new") =>
        /\ \A i \in DOMAIN ret.collection.methods :
              ret.collection.methods[i].impl_type \in DOMAIN ret.collection.constructors
        /\ ret.collection.functions =
              SelectSeq(call.under_checking_funcs,
                        LAMBDA f : f.impl_type = NoImpl \/ ~f.receiver)

C15_Witness ==
    /\ Returned("HarnessGenerator::new")
    /\ \E i \in DOMAIN call.under_checking_funcs :
          /\ IsMethod(call.under_checking_funcs[i])
          /\ call.under_checking_funcs[i].impl_type \notin DOMAIN ret.collection.constructors
    /\ ret.collection.methods = <<>>
    /\ ret.collection.functions # <<>>
    /\ call.constructors # <<>>

\* C16: after the cleanup every constructor and every getter of the
\* collection belongs to an impl_type that has a method in the collection.
C16_HelpersHaveMethods ==
    Returned("HarnessGenerator::new") =>
        \A t \in DOMAIN ret.collection.constructors \cup DOMAIN ret.collection.getters :
            HasMethod(ret.collection, t)

\* ------------------------------- Precondition (defs/function.rs 134-172)
MaxSegments == 2

\* a path segment is a string, kept as the sequence of its pieces so that
\* format!("verieasy_pre_{}", ident) can be written down
Segments == {<<"a">>, <<"b">>, <<"f">>}

\* Path: a non-empty sequence of segments
Paths == BSeq(Segments, MaxSegments) \ {<<>>}

\* Path::parent
Parent(name) == SubSeq(name, 1, Len(name) - 1)

\* Precondition::new (144-155)
PreconditionNew(name, is_method) ==
    [name |-> name,
     impl_type |-> IF is_method /\ Len(name) >= 2 THEN Precise(Parent(name)) ELSE NoType]

\* Precondition::ident (158-160)
ident(pre) == pre.name[Len(pre.name)]

\* format!("verieasy_pre_{}", self.ident())
VerieasyPre(segment) == <<"verieasy_pre_">> \o segment

CheckerNameKeepsPath(pre) ==
    [pre.name EXCEPT ![Len(pre.name)] = VerieasyPre(ident(pre))]

\* Precondition::checker_name (163-171)
checker_name(pre) ==
    IF pre.impl_type # NoType
    THEN <<VerieasyPre(ident(pre))>>
    ELSE [pre.name EXCEPT ![Len(pre.name)] = VerieasyPre(ident(pre))]

InitCheckerName ==
    /\ CheckerIdle
    /\ \E n1, n2 \in Paths, m1, m2 \in BOOLEAN :
          call = [fn |-> "checker_name",
                  pre1 |-> PreconditionNew(n1, m1),
                  pre2 |-> PreconditionNew(n2, m2)]
    /\ ret = NoRet

RunCheckerName ==
    /\ Pending("checker_name")
    /\ ret' = [fn |-> "checker_name",
               name1 |-> checker_name(call.pre1),
               name2 |-> checker_name(call.pre2)]
    /\ UNCHANGED <<checkerVars, commandVars, call>>

NextCheckerName == RunCheckerName

SpecCheckerName == InitCheckerName /\ [][NextCheckerName]_vars

\* the two preconditions agree on the last segment of the name and on
\* whether impl_type is set
AgreeOnLastAndImpl ==
    /\ ident(call.pre1) = ident(call.pre2)
    /\ (call.pre1.impl_type = NoType) <=> (call.pre2.impl_type = NoType)

\* C17 as stated: two preconditions that agree on the last segment of
\* their name and on whether impl_type is set have the same checker_name.
C17_AsStated ==
    (Returned("checker_name") /\ AgreeOnLastAndImpl) => ret.name1 = ret.name2

\* C17 (amended): with impl_type set, checker_name depends only on the last
\* segment of the name (it is the single segment verieasy_pre_<ident>);
\* with impl_type unset it keeps the leading segments of the name, so two
\* such preconditions have the same checker_name exactly when their names
\* are equal.
C17_Amended ==
    (Returned("checker_name") /\ AgreeOnLastAndImpl) =>
        IF call.pre1.impl_type # NoType
        THEN ret.name1 = ret.name2 /\ Len(ret.name1) = 1
        ELSE /\ ret.name1 = ret.name2 <=> call.pre1.name = call.pre2.name
             /\ Parent(ret.name1) = Parent(call.pre1.name)

C17_Witness ==
    /\ Returned("checker_name")
    /\ AgreeOnLastAndImpl
    /\ call.pre1.impl_type # NoType
    /\ call.pre1.name # call.pre2.name
    /\ ret.name1 = ret.name2

\* ------------------------------------------ run_command (utils.rs 11-121)
\* ExitStatus::code(): Some(code), or None when a signal ended the process
SomeCode(n) == <<n>>

NoCode == <<>>

CompilationError == 101

ExitCodes == {SomeCode(0), SomeCode(1), SomeCode(CompilationError), NoCode}

\* the step of run_command that fails on this call, if any
FailPoints == {"none", "create", "current_dir", "set_current_dir", "spawn", "restore", "wait"}

\* one call of run_command as its environment decides it: whether
\* output_path and work_dir are given, whether the program is `cargo kani`,
\* the failing step and the exit code of the child
Commands ==
    [output_path : BOOLEAN, work_dir : BOOLEAN, kani : BOOLEAN,
     fail_at : FailPoints, code : ExitCodes]

CmdErr(msg, cwd) == [tag |-> "Err", msg |-> msg, status |-> NoCode, log |-> "none", cwd |-> cwd]

CmdOk(status, log, cwd) == [tag |-> "Ok", msg |-> "", status |-> status, log |-> log, cwd |-> cwd]

\* ExitStatus::success() || is_kani_exit_1 (99-119)
FinishLog(c) ==
    IF c.code = SomeCode(0) \/ (c.kani /\ c.code = SomeCode(1)) THEN "Info" ELSE "Error"

\* run_command called with the process in directory cwd; the result also
\* tells the directory the process is left in
run_command(c, cwd) ==
    IF c.output_path /\ c.fail_at = "create" THEN CmdErr("Failed to open output file", cwd)
    ELSE IF c.fail_at = "current_dir" THEN CmdErr("Failed to get current directory", cwd)
    ELSE IF c.work_dir /\ c.fail_at = "set_current_dir"
         THEN CmdErr("Failed to set working directory", cwd)
    ELSE LET inside == IF c.work_dir THEN "work_dir" ELSE cwd IN
         IF c.fail_at = "spawn" THEN CmdErr("Failed to spawn command", inside)
         ELSE IF c.work_dir /\ c.fail_at = "restore"
              THEN CmdErr("Failed to restore working directory", inside)
         ELSE IF c.fail_at = "wait" THEN CmdErr("Failed to wait for command", cwd)
         ELSE CmdOk(c.code, FinishLog(c), cwd)

\* create_harness_project (utils.rs 131-179) from the first write on: a
\* failed write returns early; then the cargo fmt step (173-177)
create_harness_project(c, cwd) ==
    IF ~c.write_ok THEN CmdErr("Failed to write", cwd)
    ELSE LET inside == IF c.chdir_ok THEN "work_dir" ELSE cwd
             fmt == run_command([output_path |-> FALSE, work_dir |-> FALSE, kani |-> FALSE,
                                 fail_at |-> c.fail_at, code |-> c.code], inside)
         IN  IF fmt.tag = "Err" THEN fmt
             ELSE CmdOk(NoCode, fmt.log, IF c.chdir_back_ok THEN cwd ELSE fmt.cwd)

InitCommand ==
    /\ CheckerIdle
    /\ \/ \E c \in Commands : call = [fn |-> "run_command", cmd |-> c, cwd |-> "cur_dir"]
       \/ call \in [fn : {"create_harness_project"}, cwd : {"cur_dir"},
                    write_ok : BOOLEAN, chdir_ok : BOOLEAN, chdir_back_ok : BOOLEAN,
                    fail_at : FailPoints, code : ExitCodes]
    /\ ret = NoRet

RunCommand ==
    /\ Pending("run_command")
    /\ ret' = [fn |-> "run_command", result |-> run_command(call.cmd, call.cwd)]
    /\ UNCHANGED <<checkerVars, commandVars, call>>

RunCreateHarnessProject ==
    /\ Pending("create_harness_project")
    /\ ret' = [fn |-> "create_harness_project", result |-> create_harness_project(call, call.cwd)]
    /\ UNCHANGED <<checkerVars, commandVars, call>>

NextCommand == RunCommand \/ RunCreateHarnessProject

SpecCommand == InitCommand /\ [][NextCommand]_vars

\* C20: whenever run_command is called with a work_dir and returns, with Ok
\* or with an error, the process working directory is the one before the
\* call; the same holds for create_harness_project.
C20_CwdRestored ==
    /\ (Returned("run_command") /\ call.cmd.work_dir) => ret.result.cwd = call.cwd
    /\ Returned("create_harness_project") => ret.result.cwd = call.cwd

\* --------------------------------------- Kani (components/kani.rs 231-331)
MaxLines == 3

\* the lines of the prover output that analyze_kani_output reacts to
OutputLines ==
    [kind : {"harness"}, name : Names]
        \cup {[kind |-> "SUCCESSFUL"], [kind |-> "FAILED"], [kind |-> "other"]}

RunKaniFailsOnNonZero(cmd) ==
    LET r == run_command(cmd, "cur_dir") IN
    IF r.tag = "Err" THEN "Err"
    ELSE IF r.status # SomeCode(0) THEN "Err"
    ELSE "Ok"

\* Kani::run_kani (231-250)
run_kani(cmd) ==
    LET r == run_command(cmd, "cur_dir") IN
    IF r.tag = "Err" THEN "Err"
    ELSE IF r.status = SomeCode(CompilationError) THEN "Err"
    ELSE "Ok"

RECURSIVE AnalyzeLoopKeepsName(_, _, _)
AnalyzeLoopKeepsName(lines, func_name, r) ==
    IF lines = <<>> THEN r
    ELSE LET line == Head(lines)
             name == IF line.kind = "harness" THEN <<line.name>> ELSE func_name
         IN  IF line.kind = "SUCCESSFUL" /\ name # <<>>
             THEN AnalyzeLoopKeepsName(Tail(lines), name, [r EXCEPT !.ok = Append(@, name[1])])
             ELSE IF line.kind = "FAILED" /\ name # <<>>
             THEN AnalyzeLoopKeepsName(Tail(lines), name, [r EXCEPT !.fail = Append(@, name[1])])
             ELSE AnalyzeLoopKeepsName(Tail(lines), name, r)

RECURSIVE AnalyzeLoop(_, _, _)
\* the loop of analyze_kani_output (265-275): func_name is <<>> for None
AnalyzeLoop(lines, func_name, r) ==
    IF lines = <<>> THEN r
    ELSE LET line == Head(lines)
             name == IF line.kind = "harness" THEN <<line.name>> ELSE func_name
         IN  IF line.kind = "SUCCESSFUL" /\ name # <<>>
             THEN AnalyzeLoop(Tail(lines), <<>>, [r EXCEPT !.ok = Append(@, name[1])])
             ELSE IF line.kind = "FAILED" /\ name # <<>>
             THEN AnalyzeLoop(Tail(lines), <<>>, [r EXCEPT !.fail = Append(@, name[1])])
             ELSE AnalyzeLoop(Tail(lines), name, r)

\* Kani::analyze_kani_output (253-278)
analyze_kani_output(lines) ==
    AnalyzeLoop(lines, <<>>, [status |-> "Ok", ok |-> <<>>, fail |-> <<>>])

\* CheckResult::failed (check.rs 69-75)
Failed == [status |-> "Err", ok |-> <<>>, fail |-> <<>>]

\* Kani::run (306-331)
KaniRun(c) ==
    IF c.gen_harness /\ ~c.create_ok THEN Failed
    ELSE IF run_kani(c.cmd) = "Err" THEN Failed
    ELSE LET check_res == analyze_kani_output(c.output) IN
         IF ~c.keep_harness /\ ~c.remove_harness_ok THEN Failed
         ELSE IF ~c.keep_output /\ ~c.remove_output_ok THEN Failed
         ELSE check_res

InitKani ==
    /\ CheckerIdle
    /\ call \in {c \in [fn : {"Kani::run"},
                         gen_harness : BOOLEAN, create_ok : BOOLEAN,
                         cmd : [output_path : {TRUE}, work_dir : {TRUE}, kani : {TRUE},
                                fail_at : FailPoints, code : ExitCodes],
                         output : BSeq(OutputLines, MaxLines),
                         keep_harness : BOOLEAN, remove_harness_ok : BOOLEAN,
                         keep_output : BOOLEAN, remove_output_ok : BOOLEAN] :
                    \* the outcome of a step that is not taken is left fixed
                    /\ ~c.gen_harness => c.create_ok
                    /\ c.keep_harness => c.remove_harness_ok
                    /\ c.keep_output => c.remove_output_ok}
    /\ ret = NoRet

RunKani ==
    /\ Pending("Kani::run")
    /\ ret' = [fn |-> "Kani::run", res |-> KaniRun(call)]
    /\ UNCHANGED <<checkerVars, commandVars, call>>

NextKani == RunKani

SpecKani == InitKani /\ [][NextKani]_vars

\* the prover ran to its end and nothing but its exit code can fail the run
ProverExited ==
    /\ Returned("Kani::run")
    /\ call.gen_harness => call.create_ok
    /\ call.cmd.fail_at = "none"
    /\ call.keep_harness \/ call.remove_harness_ok
    /\ call.keep_output \/ call.remove_output_ok

\* the harness lines a verdict line at position j can belong to: the
\* nearest one before j, if no other verdict line lies between
HarnessOf(lines, j) ==
    {i \in 1..(j - 1) : /\ lines[i].kind = "harness"
                        /\ \A k \in (i + 1)..(j - 1) : lines[k].kind = "other"}

\* the names of the harnesses that have a verdict line of this kind, in order
Verdicts(lines, kind) ==
    LET tagged == [j \in DOMAIN lines |->
                      IF lines[j].kind = kind /\ HarnessOf(lines, j) # {}
                      THEN <<lines[CHOOSE i \in HarnessOf(lines, j) : TRUE].name>>
                      ELSE <<>>]
        kept == SelectSeq(tagged, LAMBDA v : v # <<>>)
    IN  [j \in DOMAIN kept |-> kept[j][1]]

\* C18: when the prover exits with code 1 the Kani component returns status
\* Ok with the verdicts parsed from the output (each SUCCESSFUL or FAILED
\* line counts for the harness announced before it); among the exit codes
\* only 101 makes the run fail.
C18_ExitOneBenign ==
    ProverExited =>
        /\ ret.res.status = "Err" <=> call.cmd.code = SomeCode(CompilationError)
        /\ call.cmd.code # SomeCode(CompilationError) =>
              /\ ret.res.ok = Verdicts(call.output, "SUCCESSFUL")
              /\ ret.res.fail = Verdicts(call.output, "FAILED")

C18_Witness ==
    /\ ProverExited
    /\ call.cmd.code = SomeCode(1)
    /\ ret.res.status = "Ok"
    /\ ret.res.ok # <<>>
    /\ Len(call.output) = 3 /\ call.output[2].kind = "other"

\* ------------------- the fuzzing dispatch (components/df.rs 245-279)
MaxDrivers == 257

\* u8
Bytes == 0..(2^8 - 1)

\* `n as u8`
AsU8(n) == n % 2^8

\* the inputs of run_harness: empty, or a selector byte and the rest
Inputs == {<<>>} \cup {<<b>> : b \in Bytes} \cup {<<b, 0>> : b \in Bytes}

\* `return true` without a driver
NoDriver == [fn |-> "run_harness", tag |-> "true", driver |-> <<>>, arg |-> <<>>]

\* a remainder by the constant zero: the build rejects it or it panics
DivisorZero ==
    { [fn |-> "run_harness", tag |-> "build_error", driver |-> <<>>, arg |-> <<>>],
      [fn |-> "run_harness", tag |-> "panic", driver |-> <<>>, arg |-> <<>>] }

\* #i => check_i(&input[1..])
Dispatched(i, input) ==
    [fn |-> "run_harness", tag |-> "call", driver |-> <<i>>, arg |-> Tail(input)]

\* the match arms (260-266): the pattern of the arm of driver i is `i as u8`
ArmPattern(i) == AsU8(i)

\* `#fn_count as u8` (272): the cast binds tighter than `%`
Divisor(fn_count) == AsU8(fn_count)

\* the generated run_harness (268-277) of a harness with fn_count drivers,
\* numbered from 0: the set of outcomes the build can produce
run_harness(fn_count, input) ==
    IF input = <<>> THEN {NoDriver}
    ELSE IF Divisor(fn_count) = 0 THEN DivisorZero
    ELSE LET fn_id == AsU8(input[1] % Divisor(fn_count))
             arms == {i \in 0..(fn_count - 1) : ArmPattern(i) = fn_id}
         IN  IF arms = {} THEN {NoDriver}
             ELSE {Dispatched(CHOOSE i \in arms : \A k \in arms : i <= k, input)}

InitDispatch ==
    /\ CheckerIdle
    /\ call \in [fn : {"run_harness"}, fn_count : 1..MaxDrivers, input : Inputs]
    /\ ret = NoRet

RunDispatch ==
    /\ Pending("run_harness")
    /\ ret' \in run_harness(call.fn_count, call.input)
    /\ UNCHANGED <<checkerVars, commandVars, call>>

NextDispatch == RunDispatch

SpecDispatch == InitDispatch /\ [][NextDispatch]_vars

\* C19: for a harness with N >= 1 drivers and every non-empty input,
\* run_harness calls exactly the driver whose index is the first input byte
\* modulo N and passes it the rest of the input; the index is a u8 below N.
C19_DispatchModuloN ==
    (Returned("run_harness") /\ call.input # <<>>) =>
        /\ ret.tag = "call"
        /\ ret.driver = <<call.input[1] % call.fn_count>>
        /\ ret.arg = Tail(call.input)
        /\ ret.driver[1] \in Bytes /\ ret.driver[1] < call.fn_count

\* ------------------------------- Signature::eq (defs/function.rs 9-29, 181-197)
MaxInputs == 1

\* syn::Type::Path: the segments' identifiers and the generic arguments
TypePath(segments, args) == [kind |-> "Path", segments |-> segments, args |-> args]

\* syn::Type::Reference
TypeReference(elem) == [kind |-> "Reference", elem |-> elem]

U32 == TypePath(<<"u32">>, <<>>)

U64 == TypePath(<<"u64">>, <<>>)

\* the types an argument or a return value may have: u32, u64, Vec<u32>,
\* Vec<u64>, &u32, &u64
SynTypes ==
    {U32, U64, TypePath(<<"Vec">>, <<U32>>), TypePath(<<"Vec">>, <<U64>>),
     TypeReference(U32), TypeReference(U64)}

\* syn::FnArg: a receiver (self, &self, &mut self) or a typed pattern
FnArgs ==
    [kind : {"Receiver"}, reference : BOOLEAN, mutability : BOOLEAN]
        \cup [kind : {"Typed"}, pat : {"x", "y"}, ty : SynTypes]

\* syn::ReturnType
ReturnDefault == [kind |-> "Default"]

ReturnTypes == {ReturnDefault} \cup [kind : {"Type"}, ty : SynTypes]

\* syn::Signature, the fields the comparison reads
Signatures == [ident : {"f", "g"}, inputs : BSeq(FnArgs, MaxInputs), output : ReturnTypes]

\* type_to_string (181-192): the identifiers of the path segments, joined
type_to_string(ty) ==
    IF ty.kind = "Path" THEN ty.segments ELSE <<"unsupported">>

\* type_eq (195-197)
type_eq(a, b) == type_to_string(a) = type_to_string(b)

\* the closure of `.all(..)` (18-22)
ArgEq(a, b) ==
    CASE a.kind = "Receiver" /\ b.kind = "Receiver" -> TRUE
      [] a.kind = "Typed" /\ b.kind = "Typed" -> type_eq(a.ty, b.ty)
      [] OTHER -> FALSE

\* the match on the two outputs (23-27)
OutputEq(a, b) ==
    CASE a.kind = "Default" /\ b.kind = "Default" -> TRUE
      [] a.kind = "Type" /\ b.kind = "Type" -> type_eq(a.ty, b.ty)
      [] OTHER -> FALSE

\* <Signature as PartialEq>::eq (10-28)
SignatureEq(s1, s2) ==
    /\ s1.ident = s2.ident
    /\ Len(s1.inputs) = Len(s2.inputs)
    /\ \A i \in DOMAIN s1.inputs : i \in DOMAIN s2.inputs => ArgEq(s1.inputs[i], s2.inputs[i])
    /\ OutputEq(s1.output, s2.output)

InitSignature ==
    /\ CheckerIdle
    /\ call \in [fn : {"Signature::eq"}, self : Signatures, other : Signatures]
    /\ ret = NoRet

RunSignatureEq ==
    /\ Pending("Signature::eq")
    /\ ret' = [fn |-> "Signature::eq", eq |-> SignatureEq(call.self, call.other)]
    /\ UNCHANGED <<checkerVars, commandVars, call>>

NextSignature == RunSignatureEq

SpecSignature == InitSignature /\ [][NextSignature]_vars

\* the two arguments are both receivers, or both typed with equal types
SameArg(a, b) ==
    \/ a.kind = "Receiver" /\ b.kind = "Receiver"
    \/ a.kind = "Typed" /\ b.kind = "Typed" /\ a.ty = b.ty

\* both return types absent, or both the same type
SameOutput(a, b) ==
    \/ a.kind = "Default" /\ b.kind = "Default"
    \/ a.kind = "Type" /\ b.kind = "Type" /\ a.ty = b.ty

\* C22: two Signatures compare equal exactly when they have the same
\* identifier, the same number of inputs, a receiver at the same positions,
\* equal types at every typed position and equal return types.
C22_EqualExactlyWhenSame ==
    Returned("Signature::eq") =>
        (ret.eq <=>
            /\ call.self.ident = call.other.ident
            /\ Len(call.self.inputs) = Len(call.other.inputs)
            /\ \A i \in DOMAIN call.self.inputs :
                  i \in DOMAIN call.other.inputs
                      /\ SameArg(call.self.inputs[i], call.other.inputs[i])
            /\ SameOutput(call.self.output, call.other.output))

\* ------------------------------------- PathResolver (collect/path.rs 54-177)
MaxItems == 2

\* syn::UseTree
UsePath(id, tree) == [kind |-> "Path", ident |-> id, tree |-> tree]

UseName(id) == [kind |-> "Name", ident |-> id]

UseRename(id, rename) == [kind |-> "Rename", ident |-> id, rename |-> rename]

UseGlob == [kind |-> "Glob"]

UseGroup(items) == [kind |-> "Group", items |-> items]

\* `use p::A;`, `use p::A as B;`, `use p::{A, q::*};`
UseTrees ==
    { UsePath("p", UseName("A")),
      UsePath("p", UseRename("A", "B")),
      UsePath("p", UseGroup(<<UseName("A"), UsePath("q", UseGlob)>>)) }

\* the items of a file the resolver reacts to, in visiting order: entering
\* and leaving `mod <ident> { .. }`, and a use declaration
FileItems ==
    [kind : {"mod"}, ident : {"m", "n"}] \cup {[kind |-> "end"]}
        \cup [kind : {"use"}, tree : UseTrees]

\* the paths to resolve: a first segment and the rest
SynPaths == {<<s>> \o rest : s \in {"crate", "self", "super", "A", "B", "x"},
                             rest \in {<<>>, <<"f">>}}

\* PathResolver::new (66-72); a BTreeMap is a function on its keys
NewResolver == [module |-> <<>>, mappings |-> EmptyMap, stack |-> <<>>]

RECURSIVE parse_use_tree(_, _, _)
\* PathResolver::parse_use_tree (121-147): the mappings after the tree
parse_use_tree(mappings, use_tree, prefix) ==
    CASE use_tree.kind = "Path" ->
            parse_use_tree(mappings, use_tree.tree, Append(prefix, use_tree.ident))
      [] use_tree.kind = "Name" ->
            MapInsert(mappings, use_tree.ident, Append(prefix, use_tree.ident))
      [] use_tree.kind = "Rename" ->
            MapInsert(mappings, use_tree.rename, Append(prefix, use_tree.ident))
      [] use_tree.kind = "Glob" -> mappings
      [] use_tree.kind = "Group" ->
            IF use_tree.items = <<>> THEN mappings
            ELSE parse_use_tree(parse_use_tree(mappings, Head(use_tree.items), prefix),
                                UseGroup(Tail(use_tree.items)), prefix)

\* enter_module (107-112), exit_module (115-119), visit_item_use_mut (163-165)
VisitItem(r, item) ==
    CASE item.kind = "mod" ->
            [module |-> Append(r.module, item.ident),
             mappings |-> EmptyMap,
             stack |-> Append(r.stack, r.mappings)]
      [] item.kind = "end" ->
            [module |-> SubSeq(r.module, 1, Len(r.module) - 1),
             mappings |-> r.stack[Len(r.stack)],
             stack |-> SubSeq(r.stack, 1, Len(r.stack) - 1)]
      [] item.kind = "use" ->
            [r EXCEPT !.mappings = parse_use_tree(r.mappings, item.tree, <<>>)]

RECURSIVE VisitItems(_, _)
\* the traversal of visit_file_mut up to the path under study
VisitItems(r, items) ==
    IF items = <<>> THEN r ELSE VisitItems(VisitItem(r, Head(items)), Tail(items))

RECURSIVE WellNested(_, _)
\* every `end` closes a module opened before it
WellNested(items, depth) ==
    IF items = <<>> THEN TRUE
    ELSE CASE Head(items).kind = "mod" -> WellNested(Tail(items), depth + 1)
           [] Head(items).kind = "end" -> depth > 0 /\ WellNested(Tail(items), depth - 1)
           [] OTHER -> WellNested(Tail(items), depth)

\* ModuleStack::parent (36-44)
ModuleParent(module) ==
    IF module = <<>> THEN <<>> ELSE SubSeq(module, 1, Len(module) - 1)

\* PathResolver::resolve_path (81-104)
resolve_path(r, path) ==
    LET first_seg == Head(path)
        rest == Tail(path)
        prefix == CASE first_seg = "crate" -> <<"crate">>
                    [] first_seg = "self" -> r.module
                    [] first_seg = "super" -> ModuleParent(r.module)
                    [] OTHER -> IF first_seg \in DOMAIN r.mappings
                                THEN r.mappings[first_seg] ELSE <<first_seg>>
    IN  prefix \o rest

Resolved(path) == [fn |-> "visit_path_mut", tag |-> "ok", path |-> path]

\* `resolved.len() - path.len()` below zero: the subtraction panics when
\* overflow checks are on
SubtractOverflow == [fn |-> "visit_path_mut", tag |-> "panic", path |-> <<>>]

\* visit_path_mut (167-176): the outcomes the build can produce; the loop
\* copies the original segments over the last path.len() resolved ones
visit_path_mut(r, path) ==
    LET resolved == resolve_path(r, path)
        rlen == Len(resolved)
        plen == Len(path)
    IN  IF rlen = 0 THEN {Resolved(resolved)}
        ELSE IF rlen < plen THEN {SubtractOverflow, Resolved(resolved)}
        ELSE {Resolved([i \in 1..rlen |->
                           IF i - 1 >= rlen - plen THEN path[i + plen - rlen]
                           ELSE resolved[i]])}

InitResolver ==
    /\ CheckerIdle
    /\ call \in {c \in [fn : {"visit_path_mut"}, items : BSeq(FileItems, MaxItems),
                        path : SynPaths] : WellNested(c.items, 0)}
    /\ ret = NoRet

RunResolver ==
    /\ Pending("visit_path_mut")
    /\ ret' \in visit_path_mut(VisitItems(NewResolver, call.items), call.path)
    /\ UNCHANGED <<checkerVars, commandVars, call>>

NextResolver == RunResolver

SpecResolver == InitResolver /\ [][NextResolver]_vars

\* the resolver when it reaches the path
AtPath == VisitItems(NewResolver, call.items)

\* prefix(s) of C23
ClaimedPrefix(s) ==
    CASE s = "crate" -> <<"crate">>
      [] s = "self" -> AtPath.module
      [] s = "super" -> SubSeq(AtPath.module, 1, Len(AtPath.module) - 1)
      [] OTHER -> IF s \in DOMAIN AtPath.mappings THEN AtPath.mappings[s] ELSE <<s>>

\* C23: PathResolver rewrites a path whose first segment is s into
\* prefix(s) followed by the remaining original segments, at every module
\* nesting depth.
C23_PrefixThenRest ==
    Returned("visit_path_mut") =>
        /\ ret.tag = "ok"
        /\ ret.path = ClaimedPrefix(Head(call.path)) \o Tail(call.path)

\* --------------- precondition translator: expressions (precond-translator
\* src/ast/expr.rs 13-32, src/visit.rs)
MaxDepth == 2

\* an identifier, kept as the sequence of its pieces so that the prefix
\* `spec_` can be tested and stripped: f is <<"f">>, spec_f is <<"spec_", "f">>
Ident(text) == <<text>>

SpecIdent(text) == <<"spec_", text>>

\* Expr::Lit
ExprLit == [kind |-> "Lit"]

\* Expr::Path
ExprPath(path) == [kind |-> "Path", path |-> path]

\* Expr::Unary; Expr::Cast and Expr::Field have one sub-expression too
ExprUnary(expr) == [kind |-> "Unary", expr |-> expr]

\* Expr::Binary; Expr::Index has two sub-expressions too
ExprBinary(left, right) == [kind |-> "Binary", left |-> left, right |-> right]

\* Expr::Call: the path of the function and the arguments
ExprCall(func, args) == [kind |-> "Call", func |-> func, args |-> args]

\* Expr::MethodCall
ExprMethodCall(receiver, method, args) ==
    [kind |-> "MethodCall", receiver |-> receiver, method |-> method, args |-> args]

\* the variable x
VarX == ExprPath(<<Ident("x")>>)

\* one more level of expressions over the given ones, with calls of the
\* functions funcs (of one or two arguments) and of the methods methods
ExprLevel(exprs, funcs, methods) ==
    exprs
        \cup {ExprUnary(e) : e \in exprs}
        \cup {ExprBinary(e[1], e[2]) : e \in exprs \X exprs}
        \cup {ExprCall(f, <<e>>) : f \in funcs, e \in exprs}
        \cup {ExprCall(f, <<e, VarX>>) : f \in funcs, e \in exprs}
        \cup {ExprMethodCall(e, m, <<>>) : m \in methods, e \in exprs}

RECURSIVE ExprsOfDepth(_, _, _)
\* the expressions of at most the given nesting depth
ExprsOfDepth(depth, funcs, methods) ==
    IF depth = 0 THEN {VarX, ExprLit}
    ELSE ExprLevel(ExprsOfDepth(depth - 1, funcs, methods), funcs, methods)

RECURSIVE RemoveOld(_)
\* <RemoveOld as VisitMut>::visit_expr_mut (visitors.rs 178-188) with the
\* default traversal of visit.rs: a call old(e) is replaced by e and the
\* visit returns
RemoveOld(expr) ==
    CASE expr.kind = "Call" ->
            IF expr.func = <<Ident("old")>> /\ Len(expr.args) = 1
            THEN expr.args[1]
            ELSE [expr EXCEPT !.args = [i \in DOMAIN expr.args |-> RemoveOld(expr.args[i])]]
      [] expr.kind = "MethodCall" ->
            [expr EXCEPT !.receiver = RemoveOld(expr.receiver),
                         !.args = [i \in DOMAIN expr.args |-> RemoveOld(expr.args[i])]]
      [] expr.kind = "Binary" ->
            [expr EXCEPT !.left = RemoveOld(expr.left), !.right = RemoveOld(expr.right)]
      [] expr.kind = "Unary" -> [expr EXCEPT !.expr = RemoveOld(expr.expr)]
      [] OTHER -> expr

InitRemoveOld ==
    /\ CheckerIdle
    /\ call \in [fn : {"RemoveOld"}, expr : ExprsOfDepth(MaxDepth, {<<Ident("old")>>, <<Ident("f")>>}, {Ident("m")})]
    /\ ret = NoRet

RunRemoveOld ==
    /\ Pending("RemoveOld")
    /\ ret' = [fn |-> "RemoveOld", once |-> RemoveOld(call.expr),
               twice |-> RemoveOld(RemoveOld(call.expr))]
    /\ UNCHANGED <<checkerVars, commandVars, call>>

NextRemoveOld == RunRemoveOld

SpecRemoveOld == InitRemoveOld /\ [][NextRemoveOld]_vars

RECURSIVE CallsOld(_)
\* the expression contains a call of the single-argument function old
CallsOld(expr) ==
    CASE expr.kind = "Call" ->
            \/ expr.func = <<Ident("old")>> /\ Len(expr.args) = 1
            \/ \E i \in DOMAIN expr.args : CallsOld(expr.args[i])
      [] expr.kind = "MethodCall" ->
            CallsOld(expr.receiver) \/ \E i \in DOMAIN expr.args : CallsOld(expr.args[i])
      [] expr.kind = "Binary" -> CallsOld(expr.left) \/ CallsOld(expr.right)
      [] expr.kind = "Unary" -> CallsOld(expr.expr)
      [] OTHER -> FALSE

\* C26: one pass of RemoveOld yields an expression that contains no call of
\* the single-argument function old, so a second pass changes nothing.
C26_OnePassFixedPoint ==
    Returned("RemoveOld") => (~CallsOld(ret.once) /\ ret.twice = ret.once)

\* ------------ calculate_allowed_fns (generate/generator.rs 226-269,
\* generate/visitors.rs 191-271)
MaxSpecFns == 2

\* `last_seg.starts_with("spec_")`
StartsWithSpec(segment) == Head(segment) = "spec_"

\* self_ty: None
NoSelf == <<>>

\* the impl type T, as Type::as_path gives it
TypeT == <<Ident("T")>>

PathF == <<Ident("f")>>

PathG == <<Ident("g")>>

\* the functions a body may call: the spec functions f and g, the spec
\* method T::m by its path or through Self, a spec_ function, and a
\* function that is none of these
Callees ==
    {PathF, PathG, TypeT \o <<Ident("m")>>, <<Ident("Self"), Ident("m")>>,
     <<SpecIdent("h")>>, <<Ident("ext")>>}

\* the expressions of the bodies: one call or method call, or a call of g
\* with such a call as its argument, or no call at all
BodyCalls ==
    {ExprCall(p, <<>>) : p \in Callees}
        \cup {ExprMethodCall(VarX, m, <<>>) : m \in {Ident("m"), SpecIdent("k")}}

BodyExprs == BodyCalls \cup {ExprCall(PathG, <<e>>) : e \in BodyCalls} \cup {ExprLit}

\* Block: the items of a body
Blocks == BSeq(BodyExprs, 1)

\* SpecFunction (ast/mod.rs 54-62)
SpecFunctions == [name : {PathF, PathG}, body : Blocks]

\* SpecMethod (ast/mod.rs 64-75) of impl T, named m
SpecMethods == [impl_type : {TypeT}, ident : {Ident("m")}, body : Blocks]

\* the spec methods of a program: T::m is the only method name, so none or one
SpecMethodLists == {<<>>} \cup {<<method>> : method \in SpecMethods}

\* SpecMethod::name (77-84)
MethodName(method) == Append(method.impl_type, method.ident)

RECURSIVE CheckFnCall(_, _, _)
\* CheckFnCall (visitors.rs 191-271) run over an expression: whether it
\* ends with `aborted` set
CheckFnCall(fn_list, self_ty, expr) ==
    CASE expr.kind = "Call" ->
            IF StartsWithSpec(expr.func[Len(expr.func)])
            THEN \E i \in DOMAIN expr.args : CheckFnCall(fn_list, self_ty, expr.args[i])
            ELSE IF Head(expr.func) = Ident("Self") /\ self_ty = NoSelf THEN TRUE
            ELSE LET func_path == IF Head(expr.func) = Ident("Self")
                                  THEN self_ty \o Tail(expr.func) ELSE expr.func
                 IN  IF ~Contains(fn_list, func_path) THEN TRUE
                     ELSE \E i \in DOMAIN expr.args :
                              CheckFnCall(fn_list, self_ty, expr.args[i])
      [] expr.kind = "MethodCall" ->
            IF StartsWithSpec(expr.method)
            THEN \/ CheckFnCall(fn_list, self_ty, expr.receiver)
                 \/ \E i \in DOMAIN expr.args : CheckFnCall(fn_list, self_ty, expr.args[i])
            ELSE IF self_ty = NoSelf THEN TRUE
            ELSE IF ~Contains(fn_list, Append(self_ty, expr.method)) THEN TRUE
            ELSE \/ CheckFnCall(fn_list, self_ty, expr.receiver)
                 \/ \E i \in DOMAIN expr.args : CheckFnCall(fn_list, self_ty, expr.args[i])
      [] expr.kind = "Binary" ->
            CheckFnCall(fn_list, self_ty, expr.left) \/ CheckFnCall(fn_list, self_ty, expr.right)
      [] expr.kind = "Unary" -> CheckFnCall(fn_list, self_ty, expr.expr)
      [] OTHER -> FALSE

\* CodeGenerator::is_spec_fn_generatable (230-234)
is_spec_fn_generatable(allowed_fns, body, self_ty) ==
    ~\E i \in DOMAIN body : CheckFnCall(allowed_fns, self_ty, body[i])

\* CodeGenerator::is_require_generatable (223-227)
is_require_generatable(allowed_fns, req, self_ty) == ~CheckFnCall(allowed_fns, self_ty, req)

\* allowed_fns.retain(|p| *p != name)
RetainOthers(allowed_fns, name) == SelectSeq(allowed_fns, LAMBDA q : q # name)

RECURSIVE SpecFnsRound(_, _)
\* `for spec_fn in spec_fns` (248-252)
SpecFnsRound(allowed_fns, spec_fns) ==
    IF spec_fns = <<>> THEN allowed_fns
    ELSE SpecFnsRound(IF is_spec_fn_generatable(allowed_fns, Head(spec_fns).body, NoSelf)
                      THEN allowed_fns
                      ELSE RetainOthers(allowed_fns, Head(spec_fns).name),
                      Tail(spec_fns))

RECURSIVE SpecMethodsRound(_, _)
\* `for method in spec_methods` (253-261)
SpecMethodsRound(allowed_fns, spec_methods) ==
    IF spec_methods = <<>> THEN allowed_fns
    ELSE SpecMethodsRound(
             IF is_spec_fn_generatable(allowed_fns, Head(spec_methods).body,
                                       Head(spec_methods).impl_type)
             THEN allowed_fns
             ELSE RetainOthers(allowed_fns, MethodName(Head(spec_methods))),
             Tail(spec_methods))

\* the initial list (239-243)
AllSpecNames(spec_fns, spec_methods) ==
    [i \in DOMAIN spec_fns |-> spec_fns[i].name]
        \o [i \in DOMAIN spec_methods |-> MethodName(spec_methods[i])]

AllowedAfterOneRound(allowed_fns, len, rounds, spec_fns, spec_methods) ==
    [allowed_fns |-> SpecMethodsRound(SpecFnsRound(allowed_fns, spec_fns), spec_methods),
     rounds |-> rounds]

RECURSIVE AllowedLoop(_, _, _, _, _)
\* the `loop` (247-266): rounds counts its iterations
AllowedLoop(allowed_fns, len, rounds, spec_fns, spec_methods) ==
    LET after == SpecMethodsRound(SpecFnsRound(allowed_fns, spec_fns), spec_methods) IN
    IF Len(after) = len THEN [allowed_fns |-> after, rounds |-> rounds]
    ELSE AllowedLoop(after, Len(after), rounds + 1, spec_fns, spec_methods)

\* CodeGenerator::calculate_allowed_fns (237-268)
calculate_allowed_fns(spec_fns, spec_methods) ==
    LET allowed_fns == AllSpecNames(spec_fns, spec_methods) IN
    AllowedLoop(allowed_fns, Len(allowed_fns), 1, spec_fns, spec_methods)

InitAllowed ==
    /\ CheckerIdle
    /\ call \in [fn : {"calculate_allowed_fns"},
                 spec_fns : BSeq(SpecFunctions, MaxSpecFns),
                 spec_methods : SpecMethodLists]
    /\ ret = NoRet

RunAllowed ==
    /\ Pending("calculate_allowed_fns")
    /\ ret' = [fn |-> "calculate_allowed_fns",
               result |-> calculate_allowed_fns(call.spec_fns, call.spec_methods)]
    /\ UNCHANGED <<checkerVars, commandVars, call>>

NextAllowed == RunAllowed

SpecAllowed == InitAllowed /\ [][NextAllowed]_vars

RECURSIVE CalledOutside(_, _, _)
\* the expression calls something that is neither in the set S nor a
\* spec_ callee; Self::f and a method call x.f() stand for impl_type::f,
\* and for nothing S can hold when there is no impl type
CalledOutside(S, self_ty, expr) ==
    LET inArgs == \E i \in DOMAIN expr.args : CalledOutside(S, self_ty, expr.args[i]) IN
    CASE expr.kind = "Call" ->
            \/ inArgs
            \/ /\ ~StartsWithSpec(expr.func[Len(expr.func)])
               /\ IF Head(expr.func) = Ident("Self")
                  THEN self_ty = NoSelf \/ (self_ty \o Tail(expr.func)) \notin S
                  ELSE expr.func \notin S
      [] expr.kind = "MethodCall" ->
            \/ inArgs
            \/ CalledOutside(S, self_ty, expr.receiver)
            \/ /\ ~StartsWithSpec(expr.method)
               /\ (self_ty = NoSelf \/ Append(self_ty, expr.method) \notin S)
      [] expr.kind = "Binary" ->
            CalledOutside(S, self_ty, expr.left) \/ CalledOutside(S, self_ty, expr.right)
      [] expr.kind = "Unary" -> CalledOutside(S, self_ty, expr.expr)
      [] OTHER -> FALSE

\* every item named in S calls only members of S or spec_ callees
Closed(S) ==
    /\ \A i \in DOMAIN call.spec_fns :
          call.spec_fns[i].name \in S =>
              \A k \in DOMAIN call.spec_fns[i].body :
                  ~CalledOutside(S, NoSelf, call.spec_fns[i].body[k])
    /\ \A i \in DOMAIN call.spec_methods :
          MethodName(call.spec_methods[i]) \in S =>
              \A k \in DOMAIN call.spec_methods[i].body :
                  ~CalledOutside(S, call.spec_methods[i].impl_type, call.spec_methods[i].body[k])

GivenNames == Range(AllSpecNames(call.spec_fns, call.spec_methods))

\* C24: calculate_allowed_fns returns the largest set S of the given names
\* such that every item named in S calls only members of S or spec_
\* callees, and its loop ends within one round per name, plus one.
C24_LargestClosedSet ==
    Returned("calculate_allowed_fns") =>
        LET S == Range(ret.result.allowed_fns) IN
        /\ S \subseteq GivenNames
        /\ Closed(S)
        /\ \A S2 \in SUBSET GivenNames : Closed(S2) => S2 \subseteq S
        /\ ret.result.rounds <= Cardinality(GivenNames) + 1

C24_Witness ==
    /\ Returned("calculate_allowed_fns")
    /\ ret.result.rounds = 3
    /\ Range(ret.result.allowed_fns) = {PathF}
    /\ Cardinality(GivenNames) = 3

\* ------------ CodeGenerator::preprocess (generate/generator.rs 81-130,
\* generate/visitors.rs 273-295)
MaxGenFns == 1
MaxRequires == 1

\* `trim_start_matches("spec_")`: every leading spec_ goes
TrimSpec(segment) ==
    LET RECURSIVE Trim(_)
        Trim(sg) == IF sg # <<>> /\ Head(sg) = "spec_" THEN Trim(Tail(sg)) ELSE sg
    IN  Trim(segment)

RECURSIVE RemoveSpecPrefix(_)
\* RemoveSpecPrefix (visitors.rs 276-295) with the default traversal of
\* visit.rs below the rewritten node
RemoveSpecPrefix(expr) ==
    CASE expr.kind = "Call" ->
            LET last == expr.func[Len(expr.func)]
                func == IF StartsWithSpec(last)
                        THEN Append(SubSeq(expr.func, 1, Len(expr.func) - 1), TrimSpec(last))
                        ELSE expr.func
            IN  ExprCall(func, [i \in DOMAIN expr.args |-> RemoveSpecPrefix(expr.args[i])])
      [] expr.kind = "MethodCall" ->
            ExprMethodCall(RemoveSpecPrefix(expr.receiver),
                           IF StartsWithSpec(expr.method) THEN TrimSpec(expr.method)
                           ELSE expr.method,
                           [i \in DOMAIN expr.args |-> RemoveSpecPrefix(expr.args[i])])
      [] expr.kind = "Binary" ->
            ExprBinary(RemoveSpecPrefix(expr.left), RemoveSpecPrefix(expr.right))
      [] expr.kind = "Unary" -> ExprUnary(RemoveSpecPrefix(expr.expr))
      [] OTHER -> expr

\* FunctionPrecond (ast/mod.rs): the precondition of the function f
FunctionPreconds == [name : {PathF}, requires : BSeq(BodyExprs, MaxRequires)]

\* MethodPrecond (ast/mod.rs): the precondition of a method of impl T
MethodPreconds == [impl_type : {TypeT}, requires : BSeq(BodyExprs, MaxRequires)]

\* the fields of CodeGenerator that preprocess reads and writes
CodeGenerators ==
    [spec_functions : BSeq(SpecFunctions, MaxGenFns),
     spec_methods : BSeq(SpecMethods, MaxGenFns),
     function_preconds : BSeq(FunctionPreconds, MaxGenFns),
     method_preconds : BSeq(MethodPreconds, MaxGenFns)]

\* `for req in &mut precond.requires { visitor.visit_expr_mut(req) }`
MapRequires(precond, Visit(_)) ==
    [precond EXCEPT !.requires = [i \in DOMAIN @ |-> Visit(@[i])]]

\* CodeGenerator::preprocess (81-130)
preprocess(self) ==
    LET fp1 == [i \in DOMAIN self.function_preconds |->
                   MapRequires(self.function_preconds[i], RemoveOld)]
        mp1 == [i \in DOMAIN self.method_preconds |->
                   MapRequires(self.method_preconds[i], RemoveOld)]
        allowed_fns == calculate_allowed_fns(self.spec_functions, self.spec_methods).allowed_fns
        fp2 == [i \in DOMAIN fp1 |->
                   [fp1[i] EXCEPT !.requires =
                       SelectSeq(@, LAMBDA req : is_require_generatable(allowed_fns, req, NoSelf))]]
        mp2 == [i \in DOMAIN mp1 |->
                   [mp1[i] EXCEPT !.requires =
                       SelectSeq(@, LAMBDA req :
                           is_require_generatable(allowed_fns, req, mp1[i].impl_type))]]
    IN  [spec_functions |->
             SelectSeq(self.spec_functions,
                       LAMBDA f : is_spec_fn_generatable(allowed_fns, f.body, NoSelf)),
         spec_methods |->
             SelectSeq(self.spec_methods,
                       LAMBDA m : is_spec_fn_generatable(allowed_fns, m.body, m.impl_type)),
         function_preconds |-> [i \in DOMAIN fp2 |-> MapRequires(fp2[i], RemoveSpecPrefix)],
         method_preconds |-> [i \in DOMAIN mp2 |-> MapRequires(mp2[i], RemoveSpecPrefix)]]

InitGenerator ==
    /\ CheckerIdle
    /\ call \in [fn : {"preprocess"}, self : CodeGenerators]
    /\ ret = NoRet

RunGenerator ==
    /\ Pending("preprocess")
    /\ ret' = [fn |-> "preprocess", self |-> preprocess(call.self)]
    /\ UNCHANGED <<checkerVars, commandVars, call>>

NextGenerator == RunGenerator

SpecGenerator == InitGenerator /\ [][NextGenerator]_vars

RECURSIVE CallsSpec(_)
\* the expression holds a call or method call whose last segment starts
\* with spec_
CallsSpec(expr) ==
    CASE expr.kind = "Call" ->
            \/ StartsWithSpec(expr.func[Len(expr.func)])
            \/ \E i \in DOMAIN expr.args : CallsSpec(expr.args[i])
      [] expr.kind = "MethodCall" ->
            \/ StartsWithSpec(expr.method)
            \/ CallsSpec(expr.receiver)
            \/ \E i \in DOMAIN expr.args : CallsSpec(expr.args[i])
      [] expr.kind = "Binary" -> CallsSpec(expr.left) \/ CallsSpec(expr.right)
      [] expr.kind = "Unary" -> CallsSpec(expr.expr)
      [] OTHER -> FALSE

\* the expressions code is generated from (generate_spec_function,
\* generate_spec_method, generate_function_precond, generate_method_precond)
Emitted(self) ==
    UNION {Range(self.spec_functions[i].body) : i \in DOMAIN self.spec_functions}
        \cup UNION {Range(self.spec_methods[i].body) : i \in DOMAIN self.spec_methods}
        \cup UNION {Range(self.function_preconds[i].requires) :
                        i \in DOMAIN self.function_preconds}
        \cup UNION {Range(self.method_preconds[i].requires) :
                        i \in DOMAIN self.method_preconds}

\* C25: after preprocess no emitted expression (a retained requires
\* clause, the body of a surviving spec function or spec method) holds a
\* call or method call whose last segment starts with spec_.
C25_NoSpecCallEmitted ==
    Returned("preprocess") => \A expr \in Emitted(ret.self) : ~CallsSpec(expr)

\* ------------ strings (std::str join, split, replace), as sequences of
\* characters
IsPrefix(pre, s) == Len(pre) <= Len(s) /\ SubSeq(s, 1, Len(pre)) = pre

RECURSIVE Join(_, _)
\* `[String]::join(sep)`
Join(segments, sep) ==
    IF segments = <<>> THEN <<>>
    ELSE IF Len(segments) = 1 THEN segments[1]
    ELSE segments[1] \o sep \o Join(Tail(segments), sep)

RECURSIVE SplitFrom(_, _, _)
\* `str::split(sep)`: the pieces between the leftmost non-overlapping
\* matches of sep; piece is the part of the current piece already read
SplitFrom(s, sep, piece) ==
    IF s = <<>> THEN <<piece>>
    ELSE IF IsPrefix(sep, s)
         THEN <<piece>> \o SplitFrom(SubSeq(s, Len(sep) + 1, Len(s)), sep, <<>>)
         ELSE SplitFrom(Tail(s), sep, Append(piece, Head(s)))

RECURSIVE Replace(_, _, _)
\* `str::replace(from, to)`: every leftmost non-overlapping match
Replace(s, from, to) ==
    IF s = <<>> THEN <<>>
    ELSE IF IsPrefix(from, s)
         THEN to \o Replace(SubSeq(s, Len(from) + 1, Len(s)), from, to)
         ELSE <<Head(s)>> \o Replace(Tail(s), from, to)

\* Path::to_string (defs/path.rs 15-17)
to_string(path) == Join(path, <<":", ":">>)

\* Path::to_ident (20-22)
to_ident(path) == Join(path, <<"_", "_", "_">>)

\* Path::from_str (41-44)
from_str(s) == SplitFrom(s, <<":", ":">>, <<>>)

\* ------------ DifferentialFuzzing::analyze_fuzzer_output (components/df.rs
\* 488-510)
MaxChecked == 2
MaxLogLines == 3

\* the functions of the program: a free function, a function in a module
\* and a method
FuzzPaths == {<<Ident("f")>>, <<Ident("m"), Ident("g")>>, <<Ident("T"), Ident("h")>>}

\* the result of checked_functions (361-376): each function has its own
\* name (the harness holds one `check_<name>` per function and would not
\* build otherwise)
CheckedLists == {fs \in BSeq(FuzzPaths, MaxChecked) :
                    \A i, j \in DOMAIN fs : fs[i] = fs[j] => i = j}

\* a line of the harness log: `MISMATCH: <name>` as the driver writes it
\* (82, 191), with the text the regex at 495 captures, or any other line
MismatchLine(path) == [kind |-> "MISMATCH", name |-> to_string(path)]

OtherLine == [kind |-> "other", name |-> <<>>]

LogLines == {MismatchLine(path) : path \in FuzzPaths} \cup {OtherLine}

\* `position(|f| f.to_string() == func_name)`: 0 for None
Position(ok, func_name) ==
    IF \E i \in DOMAIN ok : to_string(ok[i]) = func_name
    THEN CHOOSE i \in DOMAIN ok :
             /\ to_string(ok[i]) = func_name
             /\ \A j \in 1..(i - 1) : to_string(ok[j]) # func_name
    ELSE 0

\* Vec::swap_remove(i): the last element takes the place of the removed one
swap_remove(v, i) ==
    IF i = Len(v) THEN SubSeq(v, 1, Len(v) - 1)
    ELSE SubSeq([v EXCEPT ![i] = v[Len(v)]], 1, Len(v) - 1)

AnalyzeLineWithoutPosition(r, line) ==
    IF line.kind = "MISMATCH"
    THEN [r EXCEPT !.fail = Append(@, from_str(line.name))]
    ELSE r

\* the body of the loop over the lines (499-507)
AnalyzeLine(r, line) ==
    IF line.kind = "MISMATCH"
    THEN LET i == Position(r.ok, line.name) IN
         IF i # 0
         THEN [r EXCEPT !.ok = swap_remove(@, i), !.fail = Append(@, from_str(line.name))]
         ELSE r
    ELSE r

RECURSIVE AnalyzeLines(_, _)
AnalyzeLines(r, lines) ==
    IF lines = <<>> THEN r ELSE AnalyzeLines(AnalyzeLine(r, Head(lines)), Tail(lines))

\* DifferentialFuzzing::analyze_fuzzer_output (488-510)
analyze_fuzzer_output(functions, lines) ==
    AnalyzeLines([status |-> "Ok", ok |-> functions, fail |-> <<>>], lines)

InitFuzzOutput ==
    /\ CheckerIdle
    /\ call \in [fn : {"analyze_fuzzer_output"}, functions : CheckedLists,
                 lines : BSeq(LogLines, MaxLogLines)]
    /\ ret = NoRet

RunFuzzOutput ==
    /\ Pending("analyze_fuzzer_output")
    /\ ret' = [fn |-> "analyze_fuzzer_output",
               res |-> analyze_fuzzer_output(call.functions, call.lines)]
    /\ UNCHANGED <<checkerVars, commandVars, call>>

NextFuzzOutput == RunFuzzOutput

SpecFuzzOutput == InitFuzzOutput /\ [][NextFuzzOutput]_vars

\* the log has a line `MISMATCH: <the qualified name of path>`
LogNames(path) == \E i \in DOMAIN call.lines : call.lines[i] = MismatchLine(path)

MaxScan == 4

InitKaniOutput ==
    /\ CheckerIdle
    /\ call \in [fn : {"analyze_kani_output"}, output : BSeq(OutputLines, MaxScan)]
    /\ ret = NoRet

RunKaniOutput ==
    /\ Pending("analyze_kani_output")
    /\ ret' = [fn |-> "analyze_kani_output", res |-> analyze_kani_output(call.output)]
    /\ UNCHANGED <<checkerVars, commandVars, call>>

NextKaniOutput == RunKaniOutput

SpecKaniOutput == InitKaniOutput /\ [][NextKaniOutput]_vars

IsVerdict(line) == line.kind \in {"SUCCESSFUL", "FAILED"}

\* what follows the harness line i: the kind of the first later line that
\* names a harness or gives a verdict, "none" if there is no such line
NextEvent(lines, i) ==
    LET later == {j \in (i + 1)..Len(lines) : lines[j].kind # "other"} IN
    IF later = {} THEN "none"
    ELSE lines[CHOOSE j \in later : \A k \in later : j <= k].kind

\* the names of the harness lines directly followed by a verdict of this
\* kind, in the order of the lines
Attributed(lines, kind) ==
    LET tagged == [i \in DOMAIN lines |->
                      IF lines[i].kind = "harness" /\ NextEvent(lines, i) = kind
                      THEN <<lines[i].name>> ELSE <<>>]
        kept == SelectSeq(tagged, LAMBDA v : v # <<>>)
    IN  [i \in DOMAIN kept |-> kept[i][1]]

CountLines(lines, Test(_)) == Cardinality({i \in DOMAIN lines : Test(lines[i])})

\* C28: analyze_kani_output gives each SUCCESSFUL or FAILED line to the most
\* recently named harness that has no verdict yet: a harness is in ok (fail)
\* exactly when the next harness or verdict line after its name is a
\* SUCCESSFUL (FAILED) line; a harness named again first gets neither, a
\* verdict line with no pending harness is ignored, and a harness line
\* yields at most one verdict.
C28_VerdictToPendingHarness ==
    Returned("analyze_kani_output") =>
        /\ ret.res.ok = Attributed(call.output, "SUCCESSFUL")
        /\ ret.res.fail = Attributed(call.output, "FAILED")
        /\ Len(ret.res.ok) + Len(ret.res.fail)
               <= CountLines(call.output, LAMBDA line : line.kind = "harness")
        /\ Len(ret.res.ok) + Len(ret.res.fail) <= CountLines(call.output, IsVerdict)

C28_Witness ==
    /\ Returned("analyze_kani_output")
    /\ Len(call.output) = 4
    /\ call.output[1].kind = "harness" /\ call.output[2].kind = "harness"
    /\ call.output[1].name # call.output[2].name
    /\ call.output[3].kind = "SUCCESSFUL" /\ call.output[4].kind = "FAILED"
    /\ ret.res.ok = <<call.output[2].name>>
    /\ ret.res.fail = <<>>

\* ------------ run_command from the spawn on (utils.rs 43-112): the calling
\* thread, the subprocess and the threads log_err and save_out
MaxOut == 2
MaxErr == 1
PipeCapacity == 1

\* a line of text with its content, and a line that is not valid UTF-8
\* (`reader.lines()` yields Err for it and goes on with the next line)
Utf8Line(text) == [utf8 |-> TRUE, text |-> text]

NotUtf8Line == [utf8 |-> FALSE, text |-> "?"]

StdoutLines == {Utf8Line("a"), Utf8Line("b"), NotUtf8Line}

StderrLines == {Utf8Line("e")}

\* the subprocess is the only writer of the two pipes: what it writes to
\* stdout and to stderr, in its own order on each, and whether
\* wait_with_output and a writeln! to the output file fail
SpawnCalls ==
    {c \in [fn : {"run_command: spawn"}, out : BSeq(StdoutLines, MaxOut),
            err : BSeq(StderrLines, MaxErr), output_path : BOOLEAN,
            fail_wait : BOOLEAN, fail_write : BOOLEAN] :
        c.fail_write => c.output_path}

InitDrain ==
    /\ CheckerIdle
    /\ call \in SpawnCalls
    /\ ret = NoRet

\* `Command::new(program)...spawn()` (43-49); CheckerIdle has run_pc = "idle"
Spawn ==
    /\ call.fn = "run_command: spawn"
    /\ run_pc = "idle"
    /\ child' = "running"
    /\ run_pc' = "spawn log_err"
    /\ UNCHANGED <<checkerVars, call, ret, written_out, written_err, stdout_pipe,
                   stderr_pipe, save_out, log_err, file, logged>>

\* `let log_err = std::thread::spawn(..)` (61-68)
SpawnLogErr ==
    /\ run_pc = "spawn log_err"
    /\ log_err' = "reading"
    /\ run_pc' = "spawn save_out"
    /\ UNCHANGED <<checkerVars, call, ret, child, written_out, written_err, stdout_pipe,
                   stderr_pipe, save_out, file, logged>>

\* `let save_out = std::thread::spawn(..)` (70-86)
SpawnSaveOut ==
    /\ run_pc = "spawn save_out"
    /\ save_out' = "reading"
    /\ run_pc' = "wait"
    /\ UNCHANGED <<checkerVars, call, ret, child, written_out, written_err, stdout_pipe,
                   stderr_pipe, log_err, file, logged>>

\* the subprocess writes its next stdout line; it blocks while the pipe is
\* full, and the line is lost when the reading end is closed
ChildWriteOut ==
    /\ child = "running"
    /\ written_out < Len(call.out)
    /\ save_out = "panicked" \/ Len(stdout_pipe) < PipeCapacity
    /\ written_out' = written_out + 1
    /\ stdout_pipe' = IF save_out = "panicked" THEN stdout_pipe
                      ELSE Append(stdout_pipe, call.out[written_out + 1])
    /\ UNCHANGED <<checkerVars, call, ret, child, written_err, stderr_pipe, save_out,
                   log_err, file, logged, run_pc>>

ChildWriteErr ==
    /\ child = "running"
    /\ written_err < Len(call.err)
    /\ Len(stderr_pipe) < PipeCapacity
    /\ written_err' = written_err + 1
    /\ stderr_pipe' = Append(stderr_pipe, call.err[written_err + 1])
    /\ UNCHANGED <<checkerVars, call, ret, child, written_out, stdout_pipe, save_out,
                   log_err, file, logged, run_pc>>

\* the subprocess exits when it has written everything; its ends of the
\* pipes close
ChildExit ==
    /\ child = "running"
    /\ written_out = Len(call.out)
    /\ written_err = Len(call.err)
    /\ child' = "exited"
    /\ UNCHANGED <<checkerVars, call, ret, written_out, written_err, stdout_pipe,
                   stderr_pipe, save_out, log_err, file, logged, run_pc>>

\* one round of `for line in reader.lines()` in log_err (63-67)
LogErrLine ==
    /\ log_err = "reading"
    /\ stderr_pipe # <<>>
    /\ stderr_pipe' = Tail(stderr_pipe)
    /\ logged' = IF Head(stderr_pipe).utf8 THEN Append(logged, Head(stderr_pipe)) ELSE logged
    /\ UNCHANGED <<checkerVars, call, ret, child, written_out, written_err, stdout_pipe,
                   save_out, log_err, file, run_pc>>

\* end of file: the pipe is empty and its writing end is closed
LogErrEof ==
    /\ log_err = "reading"
    /\ stderr_pipe = <<>>
    /\ child = "exited"
    /\ log_err' = "finished"
    /\ UNCHANGED <<checkerVars, call, ret, child, written_out, written_err, stdout_pipe,
                   stderr_pipe, save_out, file, logged, run_pc>>

\* one round of `for line in reader.lines()` in save_out (72-85): a line
\* that is Ok goes to the file if there is one, to the logger otherwise
SaveOutLine ==
    /\ save_out = "reading"
    /\ stdout_pipe # <<>>
    /\ ~(call.fail_write /\ Head(stdout_pipe).utf8)
    /\ stdout_pipe' = Tail(stdout_pipe)
    /\ file' = IF Head(stdout_pipe).utf8 /\ call.output_path
               THEN Append(file, Head(stdout_pipe)) ELSE file
    /\ logged' = IF Head(stdout_pipe).utf8 /\ ~call.output_path
                 THEN Append(logged, Head(stdout_pipe)) ELSE logged
    /\ UNCHANGED <<checkerVars, call, ret, child, written_out, written_err, stderr_pipe,
                   save_out, log_err, run_pc>>

\* `writeln!(..).expect("Failed to write stdout to file")` (77): the thread
\* panics and drops its reader
SaveOutWriteFails ==
    /\ save_out = "reading"
    /\ stdout_pipe # <<>>
    /\ call.fail_write /\ Head(stdout_pipe).utf8
    /\ stdout_pipe' = <<>>
    /\ save_out' = "panicked"
    /\ UNCHANGED <<checkerVars, call, ret, child, written_out, written_err, stderr_pipe,
                   log_err, file, logged, run_pc>>

SaveOutEof ==
    /\ save_out = "reading"
    /\ stdout_pipe = <<>>
    /\ child = "exited"
    /\ save_out' = "finished"
    /\ UNCHANGED <<checkerVars, call, ret, child, written_out, written_err, stdout_pipe,
                   stderr_pipe, log_err, file, logged, run_pc>>

\* `cmd.wait_with_output()` (89-91) returns when the subprocess has exited
Wait ==
    /\ run_pc = "wait"
    /\ ~call.fail_wait
    /\ child = "exited"
    /\ run_pc' = "join log_err"
    /\ UNCHANGED <<checkerVars, call, ret, child, written_out, written_err, stdout_pipe,
                   stderr_pipe, save_out, log_err, file, logged>>

\* `.map_err(|e| anyhow!("Failed to wait for command: {}", e))?` (91)
WaitFails ==
    /\ run_pc = "wait"
    /\ call.fail_wait
    /\ run_pc' = "returned"
    /\ ret' = [fn |-> "run_command: spawn", tag |-> "Err"]
    /\ UNCHANGED <<checkerVars, call, child, written_out, written_err, stdout_pipe,
                   stderr_pipe, save_out, log_err, file, logged>>

JoinableAtOnce(thread) == TRUE

\* JoinHandle::join returns when the thread has ended
Joinable(thread) == thread \in {"finished", "panicked"}

\* `log_err.join().expect(..)` (92-94)
JoinLogErr ==
    /\ run_pc = "join log_err"
    /\ Joinable(log_err)
    /\ run_pc' = IF log_err = "panicked" THEN "panicked" ELSE "join save_out"
    /\ UNCHANGED <<checkerVars, call, ret, child, written_out, written_err, stdout_pipe,
                   stderr_pipe, save_out, log_err, file, logged>>

\* `save_out.join().expect(..)` (95-97) and the return of Ok (99-112)
JoinSaveOut ==
    /\ run_pc = "join save_out"
    /\ Joinable(save_out)
    /\ run_pc' = IF save_out = "panicked" THEN "panicked" ELSE "returned"
    /\ ret' = IF save_out = "panicked" THEN ret
              ELSE [fn |-> "run_command: spawn", tag |-> "Ok"]
    /\ UNCHANGED <<checkerVars, call, child, written_out, written_err, stdout_pipe,
                   stderr_pipe, save_out, log_err, file, logged>>

CallerStep == Spawn \/ SpawnLogErr \/ SpawnSaveOut \/ Wait \/ WaitFails \/ JoinLogErr \/ JoinSaveOut

ChildStep == ChildWriteOut \/ ChildWriteErr \/ ChildExit

LogErrStep == LogErrLine \/ LogErrEof

SaveOutStep == SaveOutLine \/ SaveOutWriteFails \/ SaveOutEof

NextDrain ==
    \/ Spawn \/ SpawnLogErr \/ SpawnSaveOut \/ Wait \/ WaitFails \/ JoinLogErr \/ JoinSaveOut
    \/ ChildWriteOut \/ ChildWriteErr \/ ChildExit
    \/ LogErrLine \/ LogErrEof
    \/ SaveOutLine \/ SaveOutWriteFails \/ SaveOutEof

\* every thread that can take a step is scheduled in the end
SpecDrain ==
    /\ InitDrain
    /\ [][NextDrain]_vars
    /\ WF_vars(CallerStep)
    /\ WF_vars(ChildStep)
    /\ WF_vars(LogErrStep)
    /\ WF_vars(SaveOutStep)

ReturnedOk == ret = [fn |-> "run_command: spawn", tag |-> "Ok"]

\* run_command has returned Ok only after the subprocess has exited and
\* both threads have finished
ReturnsAfterDrain ==
    ReturnedOk => (child = "exited" /\ save_out = "finished" /\ log_err = "finished")

\* the stdout lines that decode, in the order written
Utf8Lines(lines) == SelectSeq(lines, LAMBDA line : line.utf8)

\* C29 as stated: run_command returns Ok only after the subprocess has
\* exited and both threads have finished, and then every stdout line the
\* subprocess wrote is in the output file, in the order written.
C29_AsStated ==
    /\ ReturnsAfterDrain
    /\ (ReturnedOk /\ call.output_path) => file = call.out

\* C29, amended: under every interleaving run_command returns Ok only after
\* the subprocess has exited and both threads have finished; then every
\* stdout line the subprocess wrote that is valid UTF-8 is in the output
\* file, in the order written (a line that does not decode is skipped); and
\* once the subprocess has exited neither thread waits forever.
C29_Amended ==
    /\ [](ReturnsAfterDrain /\ ((ReturnedOk /\ call.output_path) => file = Utf8Lines(call.out)))
    /\ (child = "exited") ~> (Joinable(save_out) /\ Joinable(log_err))

C29_Witness ==
    /\ ReturnedOk
    /\ call.output_path
    /\ Len(file) = 2
    /\ file[1] # file[2]
    /\ logged # <<>>

\* ------------ the flat driver name (defs/path.rs 19-22) and its parsers
\* (components/kani.rs 267-272, pbt.rs 321-327, alive2.rs 86-89)
MaxIdentLen == 2
MaxPathLen == 2

\* identifiers over a letter and the underscore; `_` alone is not one
Identifiers ==
    {id \in BSeq({"a", "_"}, MaxIdentLen) : id # <<>> /\ id # <<"_">>}

\* Path: one segment at least
FlatPaths == {path \in BSeq(Identifiers, MaxPathLen) : path # <<>>}

\* `caps[1].replace("___", "::")` and `Path::from_str(&func_name)`
ParseFlat(flat) == from_str(Replace(flat, <<"_", "_", "_">>, <<":", ":">>))

InitFlat ==
    /\ CheckerIdle
    /\ call \in [fn : {"to_ident"}, path : FlatPaths, other : FlatPaths]
    /\ ret = NoRet

\* the harness of call.path is named, the name comes back in the output of
\* the tool and is parsed; call.other is a second function of the program
RunFlat ==
    /\ Pending("to_ident")
    /\ ret' = [fn |-> "to_ident", flat |-> to_ident(call.path),
               parsed |-> ParseFlat(to_ident(call.path)),
               other_flat |-> to_ident(call.other)]
    /\ UNCHANGED <<checkerVars, commandVars, call>>

NextFlat == RunFlat

SpecFlat == InitFlat /\ [][NextFlat]_vars

\* C30: the flat driver name identifies the function: parsing the flat name
\* of a path of identifiers (replace `___` by `::`, split on `::`) gives the
\* path back, and two different paths never have the same flat name.
C30_FlatNameIdentifies ==
    Returned("to_ident") =>
        /\ ret.parsed = call.path
        /\ call.other # call.path => ret.other_flat # ret.flat

====
